---- MODULE Spec2Model ----
(***************************************************************************)
(* SAGE ingestion pipeline (sage_core): remote embedding retry, token     *)
(* batching, markdown chunking, transactional indexing with rollback,     *)
(* content-hash deduplication and archive processing.                      *)
(*                                                                         *)
(* The module holds one state machine per component, each with its own    *)
(* specification; the variables of the components a specification does    *)
(* not run stay at their idle values.                                     *)
(*   SpecRetry   : embeddings.get_remote_embeddings_async_with_retry      *)
(*   SpecBatch   : chunking.yield_safe_batches                            *)
(*   SpecChunk   : chunking.process_markdown_chunks, split_text_semantic  *)
(*   SpecIngest  : ingestion.ingest_document on single files, one call    *)
(*                 after the other                                        *)
(*   SpecArchive : ingestion.ingest_document and                          *)
(*                 ingest_document_with_partial_failure on one archive    *)
(*   SpecLink    : ingestion.ingest_document on content the store holds   *)
(*   SpecRevise  : ingestion.ingest_document on revised versions of a     *)
(*                 document the store holds                               *)
(*   SpecRelink  : two calls of ingestion.ingest_document at the same     *)
(*                 time, on content the store holds                       *)
(*   SpecConcurrent : two calls of ingestion.ingest_document whose steps  *)
(*                 interleave                                             *)
(*   SpecPdf     : file_processing.extract_pdf_text_async under both      *)
(*                 ingestion functions, on single PDF files               *)
(***************************************************************************)
EXTENDS Integers, Sequences, FiniteSets, TLC

VARIABLES
    \* ---- get_remote_embeddings_async_with_retry (embeddings.py) ----
    r_pc,        \* "off" | "post" | "sleep" | "returned" | "raised"
    r_max,       \* the max_retries argument
    r_empty,     \* TRUE when the texts argument is the empty list
    r_attempt,   \* the loop variable `attempt` (0-based)
    r_calls,     \* number of client.post calls made so far
    r_sleeps,    \* the delays passed to asyncio.sleep, in order
    r_hist,      \* outcome of each client.post, in order (OkResponse or an error)
    \* ---- yield_safe_batches (chunking.py) ----
    b_pc,        \* "off" | "loop" | "done"
    b_tokenizer, \* TRUE when get_tokenizer() returns a tokenizer, FALSE for the fallback
    b_max,       \* the max_tokens argument
    b_items,     \* chunks_data: sequence of [text, index] (texts as passed in)
    b_i,         \* number of items of chunks_data consumed by the for loop
    b_cur,       \* current_batch: sequence of [text, index, tokens, original, truncated]
    b_curTokens, \* current_tokens
    b_out,       \* the batches yielded so far
    \* ---- split_text_semantic / process_markdown_chunks (chunking.py) ----
    c_pc,        \* "off" | "input" | "done"
    c_text,      \* the text argument
    c_fn,        \* "" | "process_markdown_chunks" | "split_text_semantic"
    c_chunks,    \* the chunks returned
    c_warnings,  \* the truncation warnings returned (process_markdown_chunks)
    \* ---- ingestion.py; a slot p of Procs runs one top-level call at a time ----
    store,          \* the Qdrant collection: point id -> payload
    embedding_mode, \* EMBEDDING_MODE: "local" | "remote"
    n_calls,        \* number of top-level calls begun so far
    i_pc,           \* per slot: "off" | "idle" | "busy" | "returned" | "raised"
    i_call,         \* per slot: the arguments of the top-level call
    i_acc,          \* per slot: the accumulators of the loop over the files
    i_out,          \* per slot: what the top-level call returned or raised
    m_pc,           \* per slot: position inside _ingest_markdown
    m_loc,          \* per slot: the locals of _ingest_markdown
    m_log,          \* per slot: the external calls of the current _ingest_markdown
    \* ---- extract_pdf_text_async (file_processing.py) ----
    pdf             \* per slot: position, subprocess, temp file, workspace, time waited

retryVars == <<r_pc, r_max, r_empty, r_attempt, r_calls, r_sleeps, r_hist>>
batchVars == <<b_pc, b_tokenizer, b_max, b_items, b_i, b_cur, b_curTokens, b_out>>

chunkVars == <<c_pc, c_text, c_fn, c_chunks, c_warnings>>

ingestVars ==
    <<store, embedding_mode, n_calls, i_pc, i_call, i_acc, i_out, m_pc, m_loc, m_log>>

pdfVars == <<pdf>>

vars == <<retryVars, batchVars, chunkVars, ingestVars, pdfVars>>

\* what the steps of one component leave alone: the other components
notRetry == <<batchVars, chunkVars, ingestVars, pdfVars>>
notBatch == <<retryVars, chunkVars, ingestVars, pdfVars>>
notChunk == <<retryVars, batchVars, ingestVars, pdfVars>>
notIngest == <<retryVars, batchVars, chunkVars, pdfVars>>
notPdf == <<retryVars, batchVars, chunkVars>>

(***************************************************************************)
(* Bounds of the model.                                                    *)
(***************************************************************************)
MaxRetriesBound == 4      \* max_retries ranges over 1..MaxRetriesBound
MaxWords == 12            \* a batching input text has 0..MaxWords words
MaxItems == 2             \* chunks_data has 0..MaxItems items
MaxTokenLimit == 18       \* max_tokens ranges over MaxTokenLimit-2..MaxTokenLimit
MaxPieces == 4            \* a chunker input text is made of 0..MaxPieces pieces
MaxCalls == 2             \* top-level calls made one after the other
MaxFiles == 2             \* an archive holds 0..MaxFiles files

(***************************************************************************)
(* Small helpers.                                                          *)
(***************************************************************************)
RECURSIVE Pow2(_)
Pow2(n) == IF n = 0 THEN 1 ELSE 2 * Pow2(n - 1)

Min(a, b) == IF a <= b THEN a ELSE b

RECURSIVE SumSeq(_)
SumSeq(q) == IF q = <<>> THEN 0 ELSE Head(q) + SumSeq(Tail(q))

RECURSIVE Flatten(_)
Flatten(qq) == IF qq = <<>> THEN <<>> ELSE Head(qq) \o Flatten(Tail(qq))

(***************************************************************************)
(* Text: a sequence of one-character strings.  str.split(), str.strip()   *)
(* and slicing as Python computes them.                                    *)
(***************************************************************************)
IsSpace(c) == c \in {" ", "\n"}

\* text[:n] for n >= 0
Prefix(text, n) == SubSeq(text, 1, Min(n, Len(text)))

RECURSIVE SplitFrom(_, _, _, _)
SplitFrom(text, i, cur, acc) ==
    IF i > Len(text)
    THEN IF cur = <<>> THEN acc ELSE Append(acc, cur)
    ELSE IF IsSpace(text[i])
         THEN SplitFrom(text, i + 1, <<>>, IF cur = <<>> THEN acc ELSE Append(acc, cur))
         ELSE SplitFrom(text, i + 1, Append(cur, text[i]), acc)

\* text.split(): the maximal runs of non-whitespace characters
SplitWords(text) == SplitFrom(text, 1, <<>>, <<>>)

RECURSIVE JoinWords(_)
JoinWords(ws) ==
    IF ws = <<>> THEN <<>>
    ELSE IF Len(ws) = 1 THEN ws[1]
    ELSE ws[1] \o <<" ">> \o JoinWords(Tail(ws))

\* w words of l characters each, separated by single spaces
WordsText(w, l) == JoinWords([j \in 1..w |-> [k \in 1..l |-> "a"]])

(***************************************************************************)
(* embeddings.py: error classification.                                    *)
(* An error is a record [type, status]; status is 0 for errors that carry *)
(* no HTTP response.                                                       *)
(***************************************************************************)
OkResponse   == [type |-> "ok", status |-> 200]
RequestError == [type |-> "RequestError", status |-> 0]
\* what the client raises when the `timeout=120.0` of the request is
\* exceeded: a subclass of httpx.RequestError
ReadTimeout  == [type |-> "ReadTimeout", status |-> 0]
OtherError   == [type |-> "Exception", status |-> 0]
HTTPStatusError(code) == [type |-> "HTTPStatusError", status |-> code]

\* the statuses the model lets the service answer with
StatusCodes == {400, 401, 403, 404, 418, 429, 500, 502, 503, 504}

EmbedErrors ==
    {RequestError, ReadTimeout, OtherError} \cup {HTTPStatusError(c) : c \in StatusCodes}

\* `isinstance(error, httpx.RequestError)`
IsRequestError(error) == error.type \in {"RequestError", "ReadTimeout"}

\* mutant: the rate-limit answer is not singled out of the 4xx statuses
is_transient_error_No429(error) ==
    IF IsRequestError(error) THEN TRUE
    ELSE IF error.type = "HTTPStatusError"
         THEN IF error.status \in {503, 502, 504} THEN TRUE
              ELSE IF error.status \in {401, 400, 404, 403} THEN FALSE
              ELSE IF 500 <= error.status /\ error.status < 600 THEN TRUE
              ELSE FALSE
    ELSE FALSE

is_transient_error(error) ==
    IF IsRequestError(error) THEN TRUE
    ELSE IF error.type = "HTTPStatusError"
         THEN IF error.status \in {429, 503, 502, 504} THEN TRUE
              ELSE IF error.status \in {401, 400, 404, 403} THEN FALSE
              ELSE IF 500 <= error.status /\ error.status < 600 THEN TRUE
              ELSE FALSE
    ELSE FALSE

(***************************************************************************)
(* embeddings.py: get_remote_embeddings_async_with_retry.                  *)
(***************************************************************************)
RetryInit ==
    /\ r_max \in 1..MaxRetriesBound
    /\ r_empty \in BOOLEAN
    /\ r_pc = "post"
    /\ r_attempt = 0
    /\ r_calls = 0
    /\ r_sleeps = <<>>
    /\ r_hist = <<>>

RetryOff ==
    /\ r_pc = "off"
    /\ r_max = 0
    /\ r_empty = FALSE
    /\ r_attempt = 0
    /\ r_calls = 0
    /\ r_sleeps = <<>>
    /\ r_hist = <<>>

\* `if not texts: return []`
RetryEmpty ==
    /\ r_pc = "post"
    /\ r_empty
    /\ r_pc' = "returned"
    /\ UNCHANGED <<r_max, r_empty, r_attempt, r_calls, r_sleeps, r_hist, notRetry>>

\* mutant: the linear backoff of get_remote_embeddings_async (embeddings.py:157)
BackoffDelay_Linear(attempt) == attempt + 1

\* the delay computed at embeddings.py:215
BackoffDelay(attempt) == Pow2(attempt)

\* one `await client.post(...)` that answers with embeddings
RetryPostOk ==
    /\ r_pc = "post"
    /\ ~r_empty
    /\ r_attempt < r_max
    /\ r_calls' = r_calls + 1
    /\ r_hist' = Append(r_hist, OkResponse)
    /\ r_pc' = "returned"
    /\ UNCHANGED <<r_max, r_empty, r_attempt, r_sleeps, notRetry>>

\* mutant: the classification is skipped, every error is retried
RetryAfterError_NoClassify(e, attempt, max_retries) ==
    IF attempt = max_retries - 1 THEN "raised" ELSE "sleep"

\* where the except-branch of the loop body goes for error e on this attempt
RetryAfterError(e, attempt, max_retries) ==
    IF ~is_transient_error(e) THEN "raised"
    ELSE IF attempt = max_retries - 1 THEN "raised"
    ELSE "sleep"

\* one `await client.post(...)` (or the decoding of its answer) that raises e
RetryPostFail(e) ==
    /\ r_pc = "post"
    /\ ~r_empty
    /\ r_attempt < r_max
    /\ r_calls' = r_calls + 1
    /\ r_hist' = Append(r_hist, e)
    /\ r_pc' = RetryAfterError(e, r_attempt, r_max)
    /\ UNCHANGED <<r_max, r_empty, r_attempt, r_sleeps, notRetry>>

\* `await asyncio.sleep(delay)` and the next iteration of the loop
RetrySleep ==
    /\ r_pc = "sleep"
    /\ r_sleeps' = Append(r_sleeps, BackoffDelay(r_attempt))
    /\ r_attempt' = r_attempt + 1
    /\ r_pc' = "post"
    /\ UNCHANGED <<r_max, r_empty, r_calls, r_hist, notRetry>>

RetryNext ==
    \/ RetryEmpty
    \/ RetryPostOk
    \/ \E e \in EmbedErrors : RetryPostFail(e)
    \/ RetrySleep


(***************************************************************************)
(* chunking.py: count_tokens, truncate_to_tokens.                          *)
(* The tokenizer (bert-base-uncased, an external library) is modelled on  *)
(* lower-case in-vocabulary words: encode gives [CLS], one id per word,   *)
(* [SEP]; decode drops the special tokens and joins the words with single *)
(* spaces.  Without a tokenizer the code estimates from the word count.    *)
(***************************************************************************)
TokEncode(text) == <<<<"[CLS]">>>> \o SplitWords(text) \o <<<<"[SEP]">>>>

TokDecode(ids) ==
    JoinWords(SelectSeq(ids, LAMBDA w : w # <<"[CLS]">> /\ w # <<"[SEP]">>))

\* int(len(text.split()) * 1.3)
FallbackCount(text) == (13 * Len(SplitWords(text))) \div 10

count_tokens(tokenizer, text) ==
    IF tokenizer THEN Len(TokEncode(text)) ELSE FallbackCount(text)

\* "..." appended by the fallback truncation
Ellipsis == <<".", ".", ".">>

\* max_tokens >= 0 here: yield_safe_batches passes max_tokens - 10 and the
\* model keeps max_tokens >= 10
truncate_to_tokens(tokenizer, text, max_tokens) ==
    IF tokenizer
    THEN IF Len(TokEncode(text)) <= max_tokens THEN text
         ELSE TokDecode(Prefix(TokEncode(text), max_tokens))
    ELSE LET char_limit == (5 * max_tokens) \div 2 IN
         IF Len(text) <= char_limit THEN text
         ELSE Prefix(text, char_limit) \o Ellipsis

(***************************************************************************)
(* chunking.py: yield_safe_batches, one iteration of its for loop per     *)
(* step.                                                                   *)
(***************************************************************************)
PREFIX_TOKENS == 5        \* "+ 5": tokens of the "search_document: " prefix
SAFETY_MARGIN == 10       \* safe_limit = max_tokens - 10

BatchTexts == {WordsText(w, l) : w \in 0..MaxWords, l \in {1, 3}}

BatchInputs ==
    UNION {[1..n -> BatchTexts] : n \in 0..MaxItems}

BatchInit ==
    /\ b_pc = "loop"
    /\ b_tokenizer \in BOOLEAN
    /\ b_max \in (MaxTokenLimit - 2)..MaxTokenLimit
    /\ \E texts \in BatchInputs :
          b_items = [j \in 1..Len(texts) |-> [text |-> texts[j], index |-> j - 1]]
    /\ b_i = 0
    /\ b_cur = <<>>
    /\ b_curTokens = 0
    /\ b_out = <<>>

BatchOff ==
    /\ b_pc = "off"
    /\ b_tokenizer = FALSE
    /\ b_max = 0
    /\ b_items = <<>>
    /\ b_i = 0
    /\ b_cur = <<>>
    /\ b_curTokens = 0
    /\ b_out = <<>>

\* lines 88-113: the item as it enters a batch
\* [text, index, tokens = item_tokens, original = original_tokens, truncated]
PreparedItem(tokenizer, item, max_tokens) ==
    LET item_tokens == count_tokens(tokenizer, item.text) + PREFIX_TOKENS IN
    IF item_tokens > max_tokens
    THEN LET safe_limit == max_tokens - SAFETY_MARGIN
             truncated_text == truncate_to_tokens(tokenizer, item.text, safe_limit)
         IN  [text |-> truncated_text, index |-> item.index,
              tokens |-> count_tokens(tokenizer, truncated_text) + PREFIX_TOKENS,
              original |-> item_tokens, truncated |-> TRUE]
    ELSE [text |-> item.text, index |-> item.index,
          tokens |-> item_tokens, original |-> item_tokens, truncated |-> FALSE]

\* mutant: the batch is closed as soon as the item would fill it to the limit
StartsNewBatch_AtLimit(current_batch, current_tokens, item_tokens, max_tokens) ==
    current_batch # <<>> /\ current_tokens + item_tokens >= max_tokens

\* line 116: `if current_batch and (current_tokens + item_tokens > max_tokens)`
StartsNewBatch(current_batch, current_tokens, item_tokens, max_tokens) ==
    current_batch # <<>> /\ current_tokens + item_tokens > max_tokens

\* one iteration of `for item in chunks_data`
BatchStep ==
    /\ b_pc = "loop"
    /\ b_i < Len(b_items)
    /\ LET item == PreparedItem(b_tokenizer, b_items[b_i + 1], b_max) IN
       IF StartsNewBatch(b_cur, b_curTokens, item.tokens, b_max)
       THEN /\ b_out' = Append(b_out, b_cur)
            /\ b_cur' = <<item>>
            /\ b_curTokens' = item.tokens
       ELSE /\ b_out' = b_out
            /\ b_cur' = Append(b_cur, item)
            /\ b_curTokens' = b_curTokens + item.tokens
    /\ b_i' = b_i + 1
    /\ UNCHANGED <<b_pc, b_tokenizer, b_max, b_items, notBatch>>

\* lines 124-125: the last batch, when it is not empty
BatchFinish ==
    /\ b_pc = "loop"
    /\ b_i = Len(b_items)
    /\ b_out' = IF b_cur # <<>> THEN Append(b_out, b_cur) ELSE b_out
    /\ b_cur' = <<>>
    /\ b_pc' = "done"
    /\ UNCHANGED <<b_tokenizer, b_max, b_items, b_i, b_curTokens, notBatch>>

BatchNext == BatchStep \/ BatchFinish

(***************************************************************************)
(* chunking.py: split_text_semantic and process_markdown_chunks.           *)
(* Both run the same accumulation loop (lines 138-195 and 233-297) and    *)
(* differ in the final pass: process_markdown_chunks also records the     *)
(* warnings.  The limits are the configurable constants of chunking.py,   *)
(* scaled down so that TLC can enumerate texts that exceed them.           *)
(* section_title, which no step reads back, is left out of the warnings.   *)
(***************************************************************************)
CHUNK_SIZE == 8           \* chunking.py:15 (default 800)
CHUNK_OVERLAP == 2        \* chunking.py:16 (default 80)
MAX_CHUNK_CHARS == 22     \* chunking.py:17 (default 4000)
TRUNCATE_MARGIN == 20     \* chunk[:MAX_CHUNK_CHARS - 20]

\* the three backquotes of a code fence; "^" stands for the backquote character
Fence == <<"^", "^", "^">>
\* "\n[truncated]"
TruncationMarker ==
    <<"\n", "[", "t", "r", "u", "n", "c", "a", "t", "e", "d", "]">>

Suffix(text, i) == SubSeq(text, i, Len(text))

\* text[-n:] for n > 0
LastChars(text, n) == SubSeq(text, Len(text) - Min(n, Len(text)) + 1, Len(text))

HasAt(text, pat, i) ==
    /\ i >= 1
    /\ i + Len(pat) - 1 <= Len(text)
    /\ SubSeq(text, i, i + Len(pat) - 1) = pat

StartsWith(text, pat) == HasAt(text, pat, 1)
EndsWith(text, pat) == HasAt(text, pat, Len(text) - Len(pat) + 1)

\* min(S) and max(S) of a non-empty set of positions
MinOf(S) == CHOOSE j \in S : \A k \in S : j <= k
MaxOf(S) == CHOOSE j \in S : \A k \in S : j >= k

\* the first of the positions in hits, 0 when there is none
FirstOf(hits) == IF hits = {} THEN 0 ELSE MinOf(hits)

\* the first position >= i where pat occurs in text, 0 when there is none
FindFrom(text, pat, i) == FirstOf({j \in i..Len(text) : HasAt(text, pat, j)})

\* text between the first and the last of the positions in keep
StripKept(text, keep) ==
    IF keep = {} THEN <<>> ELSE SubSeq(text, MinOf(keep), MaxOf(keep))

\* str.strip()
Strip(text) == StripKept(text, {j \in 1..Len(text) : ~IsSpace(text[j])})

IsBlank(text) == Strip(text) = <<>>

\* str.split(sep) for a non-empty separator; SplitOnAt is given the first
\* position of sep in text
RECURSIVE SplitOn(_, _)
RECURSIVE SplitOnAt(_, _, _)
SplitOnAt(text, sep, i) ==
    IF i = 0 THEN <<text>>
    ELSE <<SubSeq(text, 1, i - 1)>> \o SplitOn(Suffix(text, i + Len(sep)), sep)

SplitOn(text, sep) == SplitOnAt(text, sep, FindFrom(text, sep, 1))

\* re.split on the code-block pattern (fence, shortest run of anything,
\* fence): the text between the matches and the matches, alternating.
\* i is where the opening fence starts and j where the closing one does.
RECURSIVE SplitCodeBlocks(_)
RECURSIVE SplitCodeBetween(_, _, _)
SplitCodeBetween(text, i, j) ==
    IF j = 0 THEN <<text>>
    ELSE <<SubSeq(text, 1, i - 1), SubSeq(text, i, j + 2)>>
         \o SplitCodeBlocks(Suffix(text, j + 3))

RECURSIVE SplitCodeFrom(_, _)
SplitCodeFrom(text, i) ==
    IF i = 0 THEN <<text>>
    ELSE SplitCodeBetween(text, i, FindFrom(text, Fence, i + 3))

SplitCodeBlocks(text) == SplitCodeFrom(text, FindFrom(text, Fence, 1))

\* a character class of a regular expression: the characters of cs, or
\* (negated) every character outside cs
InClass(c, cs, negated) == (c \in cs) # negated

\* the position before the first of stops, the end of text when stops is empty
LastBefore(text, stops) == IF stops = {} THEN Len(text) ELSE MinOf(stops) - 1

\* the end of the run of characters of the class that starts at i
\* (i - 1 when text[i] is not in the class)
RunEnd(text, i, cs, negated) ==
    LastBefore(text, {j \in i..Len(text) : ~InClass(text[j], cs, negated)})

\* where a match of \n#{1,4}\s+[^\n]+ that starts at i ends, 0 when there is
\* none: a newline, one to four '#' (the last at h), whitespace (greedy up to
\* w, giving characters back as needed), then non-newline characters up to
\* the next newline.  ps: where \s+ can end with [^\n]+ still matching.
HeaderTitleEnd(text, ps) ==
    IF ps = {} THEN 0 ELSE RunEnd(text, MaxOf(ps) + 1, {"\n"}, TRUE)

HeaderAfterSpace(text, h, w) ==
    IF w = h THEN 0
    ELSE HeaderTitleEnd(text, {q \in (h + 1)..w :
                                 q + 1 <= Len(text) /\ text[q + 1] # "\n"})

HeaderAfterHashes(text, i, h) ==
    IF h - i < 1 \/ h - i > 4 THEN 0
    ELSE HeaderAfterSpace(text, h, RunEnd(text, h + 1, {" ", "\n"}, FALSE))

HeaderEnd(text, i) ==
    IF ~(i <= Len(text) /\ text[i] = "\n") THEN 0
    ELSE HeaderAfterHashes(text, i, RunEnd(text, i + 1, {"#"}, FALSE))

\* re.split(r'(\n#{1,4}\s+[^\n]+)', part); i is where the first match starts
\* and e where it ends
RECURSIVE SplitHeaders(_)
RECURSIVE SplitHeadersCut(_, _, _)
SplitHeadersCut(part, i, e) ==
    <<SubSeq(part, 1, i - 1), SubSeq(part, i, e)>>
    \o SplitHeaders(Suffix(part, e + 1))

RECURSIVE SplitHeadersAt(_, _)
SplitHeadersAt(part, i) ==
    IF i = 0 THEN <<part>> ELSE SplitHeadersCut(part, i, HeaderEnd(part, i))

SplitHeaders(part) ==
    SplitHeadersAt(part, FirstOf({i \in 1..Len(part) : HeaderEnd(part, i) # 0}))

\* The loop state: [chunks, cur] = (chunks, current_chunk).

\* mutant: a line is always added to the running chunk
LineOverflows_Never(code_chunk, line) == FALSE

\* line 251: `len(code_chunk) + len(line) > MAX_CHUNK_CHARS and code_chunk`
LineOverflows(code_chunk, line) ==
    Len(code_chunk) + Len(line) > MAX_CHUNK_CHARS /\ code_chunk # <<>>

\* lines 250-255: the lines of an oversized code block, st.cur is code_chunk
RECURSIVE CodeLinesLoop(_, _)
CodeLinesLoop(st, lines) ==
    IF lines = <<>> THEN st
    ELSE LET line == Head(lines) IN
         CodeLinesLoop(
            IF LineOverflows(st.cur, line)
            THEN [chunks |-> Append(st.chunks, Strip(st.cur)),
                  cur |-> line \o <<"\n">>]
            ELSE [chunks |-> st.chunks, cur |-> st.cur \o line \o <<"\n">>],
            Tail(lines))

\* lines 246-247, 256-257, 296-297: `if x.strip(): chunks.append(x.strip())`
FlushCurrent(st) ==
    IF ~IsBlank(st.cur) THEN Append(st.chunks, Strip(st.cur)) ELSE st.chunks

\* lines 244-263: one code-block part
CodeBlockStep(st, part, chunk_size) ==
    IF Len(part) > MAX_CHUNK_CHARS
    THEN [chunks |-> FlushCurrent(
                        CodeLinesLoop([chunks |-> FlushCurrent(st), cur |-> <<>>],
                                      SplitOn(part, <<"\n">>))),
          cur |-> <<>>]
    ELSE IF Len(st.cur) + Len(part) > chunk_size /\ st.cur # <<>>
    THEN [chunks |-> Append(st.chunks, Strip(st.cur)), cur |-> part]
    ELSE [chunks |-> st.chunks, cur |-> st.cur \o <<"\n">> \o part]

\* lines 285-292: the paragraphs of one section
RECURSIVE ParagraphLoop(_, _, _, _)
ParagraphLoop(st, paras, chunk_size, overlap) ==
    IF paras = <<>> THEN st
    ELSE LET para == Head(paras) IN
         ParagraphLoop(
            IF Len(st.cur) + Len(para) > chunk_size /\ st.cur # <<>>
            THEN LET overlap_text == IF Len(st.cur) > overlap
                                     THEN LastChars(st.cur, overlap) ELSE st.cur
                 IN  [chunks |-> Append(st.chunks, Strip(st.cur)),
                      cur |-> overlap_text \o <<"\n", "\n">> \o para]
            ELSE [chunks |-> st.chunks,
                  cur |-> st.cur \o <<"\n", "\n">> \o para],
            Tail(paras), chunk_size, overlap)

\* lines 267-294: the sections of one prose part
RECURSIVE SectionLoop(_, _, _, _)
SectionLoop(st, sections, chunk_size, overlap) ==
    IF sections = <<>> THEN st
    ELSE LET section == Head(sections)
             is_header == StartsWith(Strip(section), <<"#">>)
         IN  SectionLoop(
                IF IsBlank(section) THEN st
                ELSE IF is_header /\ ~IsBlank(st.cur)
                THEN [chunks |-> Append(st.chunks, Strip(st.cur)), cur |-> section]
                ELSE IF Len(st.cur) + Len(section) > chunk_size
                THEN ParagraphLoop(st, SplitOn(section, <<"\n", "\n">>),
                                   chunk_size, overlap)
                ELSE [chunks |-> st.chunks, cur |-> st.cur \o section],
                Tail(sections), chunk_size, overlap)

\* lines 240-294: `for part in parts`
RECURSIVE PartLoop(_, _, _, _)
PartLoop(st, parts, chunk_size, overlap) ==
    IF parts = <<>> THEN st
    ELSE LET part == Head(parts)
             is_code_block == StartsWith(part, Fence) /\ EndsWith(part, Fence)
         IN  PartLoop(
                IF is_code_block THEN CodeBlockStep(st, part, chunk_size)
                ELSE SectionLoop(st, SplitHeaders(part), chunk_size, overlap),
                Tail(parts), chunk_size, overlap)

\* lines 233-297: the chunks before the final pass
RawChunks(text, chunk_size, overlap) ==
    FlushCurrent(PartLoop([chunks |-> <<>>, cur |-> <<>>],
                          SplitCodeBlocks(text), chunk_size, overlap))

\* mutant: the cut keeps MAX_CHUNK_CHARS characters, then adds the marker
TruncateChunk_NoMargin(chunk) ==
    Prefix(chunk, MAX_CHUNK_CHARS) \o TruncationMarker

\* lines 202, 311: the truncated chunk
TruncateChunk(chunk) ==
    Prefix(chunk, MAX_CHUNK_CHARS - TRUNCATE_MARGIN) \o TruncationMarker

\* lines 197-206 and 299-328: the final safety pass over one chunk
SafeChunk(chunk) ==
    IF Len(chunk) > MAX_CHUNK_CHARS THEN TruncateChunk(chunk) ELSE chunk

\* lines 300-328: the safe chunks, the blank chunks dropped
FinalPass(chunks) ==
    LET kept == SelectSeq(chunks, LAMBDA c : ~IsBlank(c)) IN
    [j \in 1..Len(kept) |-> SafeChunk(kept[j])]

\* mutant: a chunk of exactly MAX_CHUNK_CHARS characters is warned about too
FinalWarnings_AtLimit(chunks) ==
    LET idxs == SelectSeq([j \in 1..Len(chunks) |-> j],
                          LAMBDA j : ~IsBlank(chunks[j])
                                     /\ Len(chunks[j]) >= MAX_CHUNK_CHARS)
    IN  [k \in 1..Len(idxs) |->
            [chunk_index |-> idxs[k] - 1,
             original_size |-> Len(chunks[idxs[k]]),
             truncated_size |-> MAX_CHUNK_CHARS - TRUNCATE_MARGIN,
             truncation_type |-> "character"]]

\* lines 301-321: one warning per oversized chunk, chunk_index from
\* enumerate(chunks)
FinalWarnings(chunks) ==
    LET idxs == SelectSeq([j \in 1..Len(chunks) |-> j],
                          LAMBDA j : ~IsBlank(chunks[j])
                                     /\ Len(chunks[j]) > MAX_CHUNK_CHARS)
    IN  [k \in 1..Len(idxs) |->
            [chunk_index |-> idxs[k] - 1,
             original_size |-> Len(chunks[idxs[k]]),
             truncated_size |-> MAX_CHUNK_CHARS - TRUNCATE_MARGIN,
             truncation_type |-> "character"]]

split_text_semantic(text, chunk_size, overlap) ==
    FinalPass(RawChunks(text, chunk_size, overlap))

\* lines 299-330: the final pass and what it returns
FinalPassWithWarnings(raw) ==
    [chunks |-> FinalPass(raw), warnings |-> FinalWarnings(raw)]

process_markdown_chunks(text) ==
    FinalPassWithWarnings(RawChunks(text, CHUNK_SIZE, CHUNK_OVERLAP))

\* The chunker as a state machine: a text comes in, one of the two functions
\* is applied to it.
Run(n) == [j \in 1..n |-> "a"]

\* what the input texts are made of: words, blank lines, a header, a fence
ChunkPieces ==
    { Run(5), Run(13), <<" ">>, <<"\n">>, <<"\n", "\n">>,
      <<"\n", "#", " ", "a">>, Fence }

ChunkTexts ==
    {Flatten(ps) : ps \in UNION {[1..n -> ChunkPieces] : n \in 0..MaxPieces}}

ChunkInit ==
    /\ c_pc = "input"
    /\ c_text \in ChunkTexts
    /\ c_fn = ""
    /\ c_chunks = <<>>
    /\ c_warnings = <<>>

ChunkOff ==
    /\ c_pc = "off"
    /\ c_text = <<>>
    /\ c_fn = ""
    /\ c_chunks = <<>>
    /\ c_warnings = <<>>

ChunkReturn(r) ==
    /\ c_chunks' = r.chunks
    /\ c_warnings' = r.warnings

ChunkProcess ==
    /\ c_pc = "input"
    /\ ChunkReturn(process_markdown_chunks(c_text))
    /\ c_fn' = "process_markdown_chunks"
    /\ c_pc' = "done"
    /\ UNCHANGED <<c_text, notChunk>>

\* with the default chunk_size and overlap, or with the arguments given
ChunkSplit(chunk_size, overlap) ==
    /\ c_pc = "input"
    /\ c_chunks' = split_text_semantic(c_text, chunk_size, overlap)
    /\ c_warnings' = <<>>
    /\ c_fn' = "split_text_semantic"
    /\ c_pc' = "done"
    /\ UNCHANGED <<c_text, notChunk>>

ChunkNext ==
    \/ ChunkProcess
    \/ \E chunk_size \in {CHUNK_SIZE, CHUNK_SIZE + 4} :
       \E overlap \in {CHUNK_OVERLAP, 0} : ChunkSplit(chunk_size, overlap)

(***************************************************************************)
(* chunking.py: yield_safe_batches as the function _ingest_markdown calls  *)
(* (list(yield_safe_batches(...))): the loop of BatchStep and BatchFinish  *)
(* run to its end.                                                         *)
(***************************************************************************)
RECURSIVE BatchLoop(_, _, _, _, _, _)
RECURSIVE BatchLoopItem(_, _, _, _, _, _, _)
BatchLoopItem(tokenizer, rest, max_tokens, out, cur, cur_tokens, item) ==
    IF StartsNewBatch(cur, cur_tokens, item.tokens, max_tokens)
    THEN BatchLoop(tokenizer, rest, max_tokens, Append(out, cur),
                   <<item>>, item.tokens)
    ELSE BatchLoop(tokenizer, rest, max_tokens, out,
                   Append(cur, item), cur_tokens + item.tokens)

BatchLoop(tokenizer, items, max_tokens, out, cur, cur_tokens) ==
    IF items = <<>>
    THEN IF cur # <<>> THEN Append(out, cur) ELSE out
    ELSE BatchLoopItem(tokenizer, Tail(items), max_tokens, out, cur, cur_tokens,
                       PreparedItem(tokenizer, Head(items), max_tokens))

yield_safe_batches(tokenizer, chunks_data, max_tokens) ==
    BatchLoop(tokenizer, chunks_data, max_tokens, <<>>, <<>>, 0)

(***************************************************************************)
(* ingestion.py and qdrant_utils.py: the data.                             *)
(* The store is the Qdrant collection, a function from point ids to        *)
(* payloads (the vectors are not modelled).  The size limits are the       *)
(* configurable constants of the code, scaled down.                        *)
(***************************************************************************)
MAX_BATCH_TOKENS == 18    \* chunking.py:18 (default 2000)
LOCAL_BATCH_SIZE == 2     \* ingestion.py:555 (batch_size = 32)
ID_TEXT_CHARS == 3        \* ingestion.py:749 (chunk_text[:100])
SCROLL_LIMIT == 2         \* ingestion.py:482 (limit=1000)
CONCURRENCY_LIMIT == 1    \* ingestion.py:58 (INGESTION_CONCURRENCY, default 100)

\* the slots in which top-level calls run
Procs == {1, 2}

\* Python's None, where the other values are tuples
None == <<>>

\* hashlib.sha256(content).hexdigest(): a collision-free digest of the content
\* mutant: white space at the ends of the text does not enter the hash
compute_content_hash_Stripped(content) == <<"sha256", Strip(content)>>

compute_content_hash(content) == <<"sha256", content>>

\* ingestion.py:112-114: every character that is no word character, "-" or
\* "." becomes "_"; the file names of the model end in ".md", and "d:e.md" is
\* the one with such a character
safe_name(filename) == IF filename = "d:e.md" THEN "d_e.md" ELSE filename

\* UPLOAD_DIR / library / version / safe_name
save_path(filename, library, version) ==
    <<"uploads", library, version, safe_name(filename)>>

\* a name as it stands in a formatted string: the pieces around its colons
\* and the colons, for the names of the model that have one
ColonPieces(name) ==
    CASE name = "a:b" -> <<"a", ":", "b">>
      [] name = "b:c" -> <<"b", ":", "c">>
      [] name = "c:d" -> <<"c", ":", "d">>
      [] name = "d:e.md" -> <<"d", ":", "e.md">>
      [] OTHER -> <<name>>

\* ingestion.py:749: md5 of the string
\* f"{library}:{version}:{filename}:{chunk_index}:{chunk_text[:100]}"
\* mutant: the whole text of the chunk enters the id
point_id_WholeText(library, version, filename, chunk_index, chunk_text) ==
    ColonPieces(library) \o <<":">> \o ColonPieces(version) \o <<":">>
        \o ColonPieces(filename) \o <<":", ToString(chunk_index), ":">>
        \o chunk_text

point_id(library, version, filename, chunk_index, chunk_text) ==
    ColonPieces(library) \o <<":">> \o ColonPieces(version) \o <<":">>
        \o ColonPieces(filename) \o <<":", ToString(chunk_index), ":">>
        \o Prefix(chunk_text, ID_TEXT_CHARS)

\* ingestion.py:734-775
create_point(chunk_text, chunk_index, library, version, filename, file_path, total_chunks, content_hash) ==
    [id |-> point_id(library, version, filename, chunk_index, chunk_text),
     payload |-> [content |-> chunk_text,
                  library |-> library,
                  version |-> version,
                  file_path |-> file_path,
                  chunk_index |-> chunk_index,
                  total_chunks |-> total_chunks,
                  type |-> "document",
                  content_hash |-> content_hash,
                  linked_files |-> <<>>]]

SeqToSet(q) == {q[j] : j \in 1..Len(q)}

PointIds(points) == {points[j].id : j \in 1..Len(points)}

\* the payload the store keeps for id after upserting points: the last one
PayloadOf(points, id) ==
    points[MaxOf({j \in 1..Len(points) : points[j].id = id})].payload

\* client.upsert(points=...)
StoreUpsert(s, points) ==
    [id \in (DOMAIN s) \cup PointIds(points) |->
        IF id \in PointIds(points) THEN PayloadOf(points, id) ELSE s[id]]

\* client.delete(points_selector=PointIdsList(points=ids))
StoreDelete(s, ids) == [id \in (DOMAIN s) \ ids |-> s[id]]

\* mutant: set_payload also blanks the content of the point
StoreSetPayload_Blanking(s, id, linked_files) ==
    IF id \in DOMAIN s
    THEN [s EXCEPT ![id].linked_files = linked_files, ![id].content = <<>>]
    ELSE s

\* client.set_payload(payload={"linked_files": ...}, points=[id])
StoreSetPayload(s, id, linked_files) ==
    IF id \in DOMAIN s
    THEN [s EXCEPT ![id].linked_files = linked_files]
    ELSE s

\* the points a scroll filtered on content_hash matches
PointsWithHash(s, content_hash) ==
    {id \in DOMAIN s : s[id].content_hash = content_hash}

\* a set of point ids in the order the store returns them
RECURSIVE InStoreOrder(_)
InStoreOrder(ids) ==
    IF ids = {} THEN <<>>
    ELSE <<CHOOSE id \in ids : TRUE>>
         \o InStoreOrder(ids \ {CHOOSE id \in ids : TRUE})

\* exceptions: IngestionError(message, processing_step, file_name, details)
\* with details.error_type, and any other exception
NoError ==
    [type |-> "none", processing_step |-> "", file_name |-> "", error_type |-> ""]

IngestionError(processing_step, file_name, error_type) ==
    [type |-> "IngestionError", processing_step |-> processing_step,
     file_name |-> file_name, error_type |-> error_type]

OtherException(error_type) ==
    [type |-> "Exception", processing_step |-> "", file_name |-> "",
     error_type |-> error_type]

\* what _ingest_markdown returns
IngestResult(chunks_indexed, was_duplicate, linked_to, truncation_warnings) ==
    [chunks_indexed |-> chunks_indexed, was_duplicate |-> was_duplicate,
     linked_to |-> linked_to, truncation_warnings |-> truncation_warnings]

NoResult == IngestResult(0, FALSE, None, <<>>)

\* the locals of _ingest_markdown at entry (line 449)
NewLocals(markdown, filename, library, version) ==
    [markdown |-> markdown, filename |-> filename,
     library |-> library, version |-> version,
     content_hash |-> None,
     existing_doc |-> None,      \* existing_doc["file_path"], None on a miss
     file_path |-> None,
     results |-> <<>>,           \* the scrolled points not yet linked
     chunks |-> <<>>,
     truncation_warnings |-> <<>>,
     chunk_batches |-> <<>>,
     batch |-> 1,                \* the batch the embedding loop is at
     dense_vecs |-> 0,           \* how many vectors the dense call returned
     all_points |-> <<>>,
     point_ids |-> <<>>,
     exc |-> NoError,            \* the exception on its way to the handlers
     ret |-> NoResult]

NoLocals == NewLocals(<<>>, "", "", "")

\* the external calls of one _ingest_markdown, and the store as it was when
\* the call began
NewLog(s) ==
    [before |-> s,
     query_ok |-> TRUE,          \* check_duplicate_content's scroll answered
     save_ok |-> TRUE,           \* save_uploaded_file wrote the upload
     delete_ok |-> TRUE,         \* the client.delete of the rollback succeeded
     link_ok |-> TRUE,           \* no scroll or set_payload of the linking raised
     failed |-> "",              \* the call whose failure left the try block
     stored |-> {},              \* the ids this call wrote and did not delete
     after_failed |-> FALSE,     \* the call before this one raised for this content
     dense_calls |-> 0,
     sparse_calls |-> 0,
     upserts |-> <<>>,           \* the id set of each client.upsert
     deletes |-> <<>>,           \* the id set of each client.delete
     set_payloads |-> <<>>]      \* the point of each client.set_payload

(***************************************************************************)
(* ingestion.py: _ingest_markdown (lines 430-731), one step per external   *)
(* call: the store, the disk, the chunker, the embedding models.  A call   *)
(* that can fail takes its outcome as a parameter.                         *)
(***************************************************************************)
\* the top-level call that ended last in slot p raised an IngestionError
\* for a single file of this content
FailedBefore(p, markdown) ==
    /\ i_pc[p] = "raised"
    /\ i_out[p].error.type = "IngestionError"
    /\ Len(i_call[p].files) = 1
    /\ i_call[p].files[1].markdown = markdown

\* _ingest_markdown is entered in slot p
EnterIngestMarkdown(p, markdown, filename, library, version) ==
    /\ m_pc' = [m_pc EXCEPT ![p] = "check"]
    /\ m_loc' = [m_loc EXCEPT ![p] = NewLocals(markdown, filename, library, version)]
    /\ m_log' = [m_log EXCEPT ![p] =
                    [NewLog(store) EXCEPT !.after_failed = FailedBefore(p, markdown)]]

\* an exception leaves the try block for the handlers of lines 711-731
Raise(p, loc, exc) ==
    /\ m_loc' = [m_loc EXCEPT ![p] = [loc EXCEPT !.exc = exc]]
    /\ m_pc' = [m_pc EXCEPT ![p] = "except"]

\* a return statement of the try block
Return(p, loc, ret) ==
    /\ m_loc' = [m_loc EXCEPT ![p] = [loc EXCEPT !.ret = ret]]
    /\ m_pc' = [m_pc EXCEPT ![p] = "returned"]

\* mutant: the duplicate check finds nothing
DuplicateHits_Nothing(s, content_hash, query_ok) == {}

\* mutant: a scroll that raised is answered from the store all the same
DuplicateHits_ThroughFailure(s, content_hash, query_ok) ==
    PointsWithHash(s, content_hash)

\* qdrant_utils.py:219-250: the points check_duplicate_content can answer
\* with; none when the scroll raises (the exception is swallowed)
DuplicateHits(s, content_hash, query_ok) ==
    IF query_ok THEN PointsWithHash(s, content_hash) ELSE {}

\* lines 456-461: compute_content_hash, check_duplicate_content
CheckDuplicate(p, query_ok) ==
    /\ m_pc[p] = "check"
    /\ LET h == compute_content_hash(m_loc[p].markdown)
           hits == DuplicateHits(store, h, query_ok)
       IN  IF hits = {}
           THEN /\ m_loc' = [m_loc EXCEPT ![p].content_hash = h]
                /\ m_pc' = [m_pc EXCEPT ![p] = "save"]
           ELSE \E id \in hits :
                /\ m_loc' = [m_loc EXCEPT ![p].content_hash = h,
                                          ![p].existing_doc = store[id].file_path]
                /\ m_pc' = [m_pc EXCEPT ![p] = "dup_save"]
    /\ m_log' = [m_log EXCEPT ![p].query_ok = query_ok]
    /\ UNCHANGED <<store, embedding_mode, n_calls, i_pc, i_call, i_acc, i_out, notIngest>>

\* lines 468 and 524: save_uploaded_file; an OSError is an unexpected error
SaveUpload(p, at, next, ok) ==
    /\ m_pc[p] = at
    /\ IF ok
       THEN /\ m_loc' = [m_loc EXCEPT ![p].file_path =
                            save_path(m_loc[p].filename, m_loc[p].library,
                                      m_loc[p].version)]
            /\ m_pc' = [m_pc EXCEPT ![p] = next]
       ELSE Raise(p, m_loc[p], OtherException("OSError"))
    /\ m_log' = [m_log EXCEPT ![p].save_ok = ok,
                              ![p].failed = IF ok THEN @ ELSE "save"]
    /\ UNCHANGED <<store, embedding_mode, n_calls, i_pc, i_call, i_acc, i_out, notIngest>>

\* line 468, on a duplicate hit
DupSaveUpload(p, ok) == SaveUpload(p, "dup_save", "dup_scroll", ok)

\* lines 472-485: what client.scroll(limit=1000) answers with, the first
\* page of the points with the hash
ScrollPage(s, content_hash) ==
    LET ids == InStoreOrder(PointsWithHash(s, content_hash))
    IN  [j \in 1..Min(Len(ids), SCROLL_LIMIT) |->
            [id |-> ids[j], linked_files |-> s[ids[j]].linked_files]]

\* lines 471-485: the scroll for the points with the hash; when it raises,
\* line 509 swallows the exception and line 513 returns
DupScroll(p, ok) ==
    /\ m_pc[p] = "dup_scroll"
    /\ IF ok
       THEN /\ m_loc' = [m_loc EXCEPT ![p].results =
                  ScrollPage(store, m_loc[p].content_hash)]
            /\ m_pc' = [m_pc EXCEPT ![p] = "dup_link"]
       ELSE Return(p, m_loc[p],
                   IngestResult(0, TRUE, m_loc[p].existing_doc, <<>>))
    /\ m_log' = [m_log EXCEPT ![p].link_ok = ok]
    /\ UNCHANGED <<store, embedding_mode, n_calls, i_pc, i_call, i_acc, i_out, notIngest>>

\* lines 490-495
NewLink(loc) ==
    [library |-> loc.library, version |-> loc.version,
     file_path |-> loc.file_path, filename |-> loc.filename]

\* lines 488-505: one iteration of `for point in results`; a set_payload that
\* raises ends the loop (line 509) and line 513 returns
DupLink(p, ok) ==
    /\ m_pc[p] = "dup_link"
    /\ m_loc[p].results # <<>>
    /\ LET point == Head(m_loc[p].results)
           new_link == NewLink(m_loc[p])
       IN  IF new_link \in SeqToSet(point.linked_files)
           THEN /\ ok
                /\ m_loc' = [m_loc EXCEPT ![p].results = Tail(m_loc[p].results)]
                /\ UNCHANGED <<store, m_pc, m_log>>
           ELSE /\ m_log' = [m_log EXCEPT ![p].set_payloads =
                                Append(m_log[p].set_payloads, point.id),
                                           ![p].link_ok = ok]
                /\ IF ok
                   THEN /\ store' = StoreSetPayload(store, point.id,
                                       Append(point.linked_files, new_link))
                        /\ m_loc' = [m_loc EXCEPT ![p].results = Tail(m_loc[p].results)]
                        /\ UNCHANGED m_pc
                   ELSE /\ Return(p, m_loc[p],
                                  IngestResult(0, TRUE, m_loc[p].existing_doc, <<>>))
                        /\ UNCHANGED store
    /\ UNCHANGED <<embedding_mode, n_calls, i_pc, i_call, i_acc, i_out, notIngest>>

\* lines 507-518: the loop is over, the duplicate is reported
DupReturn(p) ==
    /\ m_pc[p] = "dup_link"
    /\ m_loc[p].results = <<>>
    /\ Return(p, m_loc[p], IngestResult(0, TRUE, m_loc[p].existing_doc, <<>>))
    /\ UNCHANGED <<store, embedding_mode, n_calls, i_pc, i_call, i_acc, i_out, m_log, notIngest>>

\* line 524, on a miss
MissSaveUpload(p, ok) == SaveUpload(p, "save", "chunk", ok)

\* lines 547-550
ChunksData(chunks) == [j \in 1..Len(chunks) |-> [text |-> chunks[j], index |-> j - 1]]

\* line 556: chunks_data[i:i + batch_size] for i in range(0, len, batch_size)
FixedBatches(chunks_data, batch_size) ==
    [b \in 1..((Len(chunks_data) + batch_size - 1) \div batch_size) |->
        SubSeq(chunks_data, (b - 1) * batch_size + 1,
               Min(b * batch_size, Len(chunks_data)))]

\* lines 553-569
ChunkBatches(mode, tokenizer, chunks_data) ==
    IF mode = "local"
    THEN FixedBatches(chunks_data, LOCAL_BATCH_SIZE)
    ELSE yield_safe_batches(tokenizer, chunks_data, MAX_BATCH_TOKENS)

\* chunking.py:107-113: the warning of a truncated item
TokenWarning(item) ==
    [chunk_index |-> item.index,
     original_size |-> item.original - PREFIX_TOKENS,
     truncated_size |-> item.tokens - PREFIX_TOKENS,
     truncation_type |-> "token"]

\* lines 557 and 562-569: the warnings of the truncated items, batch by batch
TokenWarnings(mode, chunk_batches) ==
    IF mode = "local" THEN <<>>
    ELSE LET truncated == SelectSeq(Flatten(chunk_batches), LAMBDA item : item.truncated)
         IN  [j \in 1..Len(truncated) |-> TokenWarning(truncated[j])]

\* lines 553-572 for the batches made of the chunker's answer r
WithBatches(loc, r, mode, chunk_batches) ==
    [loc EXCEPT !.chunks = r.chunks,
                !.truncation_warnings = r.warnings \o TokenWarnings(mode, chunk_batches),
                !.chunk_batches = chunk_batches]

\* lines 537-572 for the chunker's answer r
AfterChunking(p, r, tokenizer) ==
    IF r.chunks = <<>>
    THEN Return(p, m_loc[p], IngestResult(0, FALSE, None, <<>>))
    ELSE /\ m_loc' = [m_loc EXCEPT ![p] =
                WithBatches(m_loc[p], r, embedding_mode,
                    ChunkBatches(embedding_mode, tokenizer, ChunksData(r.chunks)))]
         /\ m_pc' = [m_pc EXCEPT ![p] = "models"]

\* lines 527-572: process_markdown_chunks and the batching; tokenizer tells
\* whether get_tokenizer() could load the tokenizer
ChunkDocument(p, ok, tokenizer) ==
    /\ m_pc[p] = "chunk"
    /\ IF ok
       THEN AfterChunking(p, process_markdown_chunks(m_loc[p].markdown), tokenizer)
       ELSE Raise(p, m_loc[p],
                  IngestionError("chunking", m_loc[p].filename, "Exception"))
    /\ m_log' = [m_log EXCEPT ![p].failed = IF ok THEN @ ELSE "chunk"]
    /\ UNCHANGED <<store, embedding_mode, n_calls, i_pc, i_call, i_acc, i_out, notIngest>>

\* lines 579-580: get_sparse_model and, in local mode, get_dense_model; a
\* model that cannot be loaded is an unexpected error
LoadModels(p, ok) ==
    /\ m_pc[p] = "models"
    /\ IF ok
       THEN /\ m_pc' = [m_pc EXCEPT ![p] = "dense"]
            /\ UNCHANGED m_loc
       ELSE Raise(p, m_loc[p], OtherException("Exception"))
    /\ m_log' = [m_log EXCEPT ![p].failed = IF ok THEN @ ELSE "models"]
    /\ UNCHANGED <<store, embedding_mode, n_calls, i_pc, i_call, i_acc, i_out, notIngest>>

\* the batch the embedding loop is at
CurrentBatch(loc) ==
    IF loc.batch \in 1..Len(loc.chunk_batches)
    THEN loc.chunk_batches[loc.batch] ELSE <<>>

\* how many vectors the dense model can answer with for n texts: the local
\* model yields one per text, the remote service's answer is taken as it comes
DenseAnswers(mode, n) == IF mode = "local" THEN {n} ELSE 0..n

\* the requests of slot p's httpx.AsyncClient that are in flight: the batch
\* loop awaits each request before it makes the next
ClientRequests(p) == IF m_pc[p] = "dense_wait" THEN 1 ELSE 0

\* lines 587-602: in remote mode the request for the dense embeddings of the
\* current batch goes out on the client of this call, whose connection pool
\* holds CONCURRENCY_LIMIT * 2 connections
SendDense(p) ==
    /\ m_pc[p] = "dense"
    /\ embedding_mode = "remote"
    /\ ClientRequests(p) < CONCURRENCY_LIMIT * 2
    /\ m_pc' = [m_pc EXCEPT ![p] = "dense_wait"]
    /\ UNCHANGED <<store, embedding_mode, n_calls, i_pc, i_call, i_acc, i_out, m_loc, m_log, notIngest>>

\* where the dense embeddings are answered: after the request in remote
\* mode, in the call of the model in local mode
DenseAt(mode) == IF mode = "remote" THEN "dense_wait" ELSE "dense"

\* lines 602 and 656: the dense embeddings of the current batch
EmbedDense(p, ok) ==
    /\ m_pc[p] = DenseAt(embedding_mode)
    /\ IF ok
       THEN /\ \E vecs \in DenseAnswers(embedding_mode, Len(CurrentBatch(m_loc[p]))) :
                  m_loc' = [m_loc EXCEPT ![p].dense_vecs = vecs]
            /\ m_pc' = [m_pc EXCEPT ![p] = "sparse"]
       ELSE Raise(p, m_loc[p],
                  IngestionError("embedding", m_loc[p].filename, "Exception"))
    /\ m_log' = [m_log EXCEPT ![p].dense_calls = m_log[p].dense_calls + 1,
                              ![p].failed = IF ok THEN @ ELSE "dense"]
    /\ UNCHANGED <<store, embedding_mode, n_calls, i_pc, i_call, i_acc, i_out, notIngest>>

\* mutant: a point for every item of the batch, whatever came back
ZipLength_Batch(batch_len, dense_len, sparse_len) == batch_len

\* zip(batch, dense_vecs, sparse_vecs) stops at the shortest
ZipLength(batch_len, dense_len, sparse_len) ==
    Min(batch_len, Min(dense_len, sparse_len))

\* lines 627-642 and 667-682: the points of one batch
BatchPoints(loc, batch, n) ==
    [j \in 1..n |->
        create_point(batch[j].text, batch[j].index, loc.library, loc.version,
                     loc.filename, loc.file_path, Len(loc.chunks),
                     loc.content_hash)]

\* the locals after the points of the current batch were created
WithPoints(loc, points) ==
    [loc EXCEPT !.all_points = loc.all_points \o points,
                !.point_ids = loc.point_ids \o [j \in 1..Len(points) |-> points[j].id],
                !.batch = loc.batch + 1]

\* lines 617 and 657: the sparse embeddings of the current batch (one vector
\* per text), then the points of the batch
EmbedSparse(p, ok) ==
    /\ m_pc[p] = "sparse"
    /\ IF ok
       THEN /\ m_loc' = [m_loc EXCEPT ![p] =
                  WithPoints(m_loc[p],
                     BatchPoints(m_loc[p], CurrentBatch(m_loc[p]),
                        ZipLength(Len(CurrentBatch(m_loc[p])),
                                  m_loc[p].dense_vecs,
                                  Len(CurrentBatch(m_loc[p])))))]
            /\ m_pc' = [m_pc EXCEPT ![p] =
                  IF m_loc[p].batch = Len(m_loc[p].chunk_batches)
                  THEN "upsert" ELSE "dense"]
       ELSE Raise(p, m_loc[p],
                  IngestionError("embedding", m_loc[p].filename, "Exception"))
    /\ m_log' = [m_log EXCEPT ![p].sparse_calls = m_log[p].sparse_calls + 1,
                              ![p].failed = IF ok THEN @ ELSE "sparse"]
    /\ UNCHANGED <<store, embedding_mode, n_calls, i_pc, i_call, i_acc, i_out, notIngest>>

\* lines 685-709: client.upsert of all the points, when there are any, and
\* the return.  A failing upsert has written some first points.
UpsertPoints(p, ok) ==
    /\ m_pc[p] = "upsert"
    /\ IF m_loc[p].all_points = <<>>
       THEN /\ ok
            /\ Return(p, m_loc[p],
                      IngestResult(0, FALSE, None, m_loc[p].truncation_warnings))
            /\ UNCHANGED <<store, m_log>>
       ELSE IF ok
            THEN /\ store' = StoreUpsert(store, m_loc[p].all_points)
                 /\ m_log' = [m_log EXCEPT
                       ![p].upserts = Append(@, PointIds(m_loc[p].all_points)),
                       ![p].stored = PointIds(m_loc[p].all_points)]
                 /\ Return(p, m_loc[p],
                           IngestResult(Len(m_loc[p].all_points), FALSE, None,
                                        m_loc[p].truncation_warnings))
            ELSE /\ \E written \in 0..Len(m_loc[p].all_points) :
                       /\ store' = StoreUpsert(store,
                                      SubSeq(m_loc[p].all_points, 1, written))
                       /\ m_log' = [m_log EXCEPT
                             ![p].upserts = Append(@, PointIds(m_loc[p].all_points)),
                             ![p].failed = "upsert",
                             ![p].stored = PointIds(SubSeq(m_loc[p].all_points, 1, written))]
                 /\ Raise(p, m_loc[p],
                          IngestionError("indexing", m_loc[p].filename, "Exception"))
    /\ UNCHANGED <<embedding_mode, n_calls, i_pc, i_call, i_acc, i_out, notIngest>>

\* mutant: the rollback deletes only the last point tracked
RollbackIds_Last(point_ids) == {point_ids[Len(point_ids)]}

\* line 716: delete_points_by_ids(client, COLLECTION_NAME, point_ids)
RollbackIds(point_ids) == SeqToSet(point_ids)

\* mutant: the handlers wrap whatever reaches them
Reraised_Wrapped(exc, file_name) ==
    IngestionError("unknown", file_name, exc.error_type)

\* lines 711-731: what the handlers raise
Reraised(exc, file_name) ==
    IF exc.type = "IngestionError" THEN exc
    ELSE IngestionError("unknown", file_name, exc.error_type)

\* mutant: a failing rollback delete takes the place of the error
HandlerRaises_Masked(exc, file_name, delete_ok) ==
    IF delete_ok THEN Reraised(exc, file_name) ELSE OtherException("Exception")

\* qdrant_utils.py:279-282 and lines 717, 725-731: delete_points_by_ids
\* catches and logs the failure of client.delete, so the handler goes on to
\* its raise whether the delete succeeded or not
HandlerRaises(exc, file_name, delete_ok) == Reraised(exc, file_name)

\* lines 711-731 and qdrant_utils.py:253-282: the rollback, then the raise.
\* A client.delete that raises is logged and swallowed.
Rollback(p, delete_ok) ==
    /\ m_pc[p] = "except"
    /\ IF m_loc[p].point_ids # <<>>
       THEN /\ m_log' = [m_log EXCEPT
                  ![p].deletes = Append(m_log[p].deletes, RollbackIds(m_loc[p].point_ids)),
                  ![p].delete_ok = delete_ok,
                  ![p].stored = IF delete_ok THEN @ \ RollbackIds(m_loc[p].point_ids)
                                ELSE @]
            /\ store' = IF delete_ok
                        THEN StoreDelete(store, RollbackIds(m_loc[p].point_ids))
                        ELSE store
       ELSE /\ delete_ok
            /\ UNCHANGED <<store, m_log>>
    /\ m_loc' = [m_loc EXCEPT ![p].exc =
                    HandlerRaises(m_loc[p].exc, m_loc[p].filename, delete_ok)]
    /\ m_pc' = [m_pc EXCEPT ![p] = "raised"]
    /\ UNCHANGED <<embedding_mode, n_calls, i_pc, i_call, i_acc, i_out, notIngest>>

\* the steps of _ingest_markdown
IngestMarkdownStep(p) ==
    \/ \E ok \in BOOLEAN : CheckDuplicate(p, ok)
    \/ \E ok \in BOOLEAN : DupSaveUpload(p, ok)
    \/ \E ok \in BOOLEAN : DupScroll(p, ok)
    \/ \E ok \in BOOLEAN : DupLink(p, ok)
    \/ DupReturn(p)
    \/ \E ok \in BOOLEAN : MissSaveUpload(p, ok)
    \/ \E ok \in BOOLEAN, tokenizer \in BOOLEAN : ChunkDocument(p, ok, tokenizer)
    \/ \E ok \in BOOLEAN : LoadModels(p, ok)
    \/ SendDense(p)
    \/ \E ok \in BOOLEAN : EmbedDense(p, ok)
    \/ \E ok \in BOOLEAN : EmbedSparse(p, ok)
    \/ \E ok \in BOOLEAN : UpsertPoints(p, ok)
    \/ \E ok \in BOOLEAN : Rollback(p, ok)

(***************************************************************************)
(* ingestion.py: ingest_document (lines 124-253) and                       *)
(* ingest_document_with_partial_failure (lines 256-427).  files is what    *)
(* process_zip_async or process_file_async returned: (name, markdown)      *)
(* pairs.                                                                  *)
(***************************************************************************)
\* the content of an upload that is no archive
NoZip == [readable |-> TRUE, entries |-> <<>>]

NoCall ==
    [fn |-> "", file_type |-> "", filename |-> "", library |-> "",
     version |-> "", files |-> <<>>, zip |-> NoZip]

\* lines 184-187 and 324-326, with what was handed to _ingest_markdown and
\* how it ended
NewAcc ==
    [done |-> 0,                 \* iterations of the for loop finished
     total_chunks |-> 0,
     successes |-> 0,
     failures |-> <<>>,
     was_duplicate |-> FALSE,
     linked_to |-> None,
     truncation_warnings |-> <<>>,
     handed |-> <<>>,            \* the file names passed to _ingest_markdown
     outcomes |-> <<>>]          \* per file passed: NoError or what it raised

NoOut == [status |-> "none", result |-> <<>>, error |-> NoError]

\* lines 211-220 and 244-253
DocumentResult(call, acc) ==
    [library |-> call.library, version |-> call.version,
     files_processed |-> Len(call.files),
     chunks_indexed |-> acc.total_chunks,
     was_duplicate |-> acc.was_duplicate,
     linked_to |-> acc.linked_to,
     truncation_warnings |-> acc.truncation_warnings]

\* lines 360-369, 401-410 and 413-427
PartialResult(call, success, files_processed, chunks_indexed, failures) ==
    [success |-> success,
     library |-> call.library, version |-> call.version,
     files_processed |-> files_processed,
     files_failed |-> Len(failures),
     chunks_indexed |-> chunks_indexed,
     failures |-> failures]

\* what the call returns once the loop over the files is over
FinalResult(call, acc) ==
    IF call.fn = "ingest_document"
    THEN DocumentResult(call, acc)
    ELSE PartialResult(call, TRUE, acc.successes, acc.total_chunks, acc.failures)

\* lines 342-347 and 421-426: the entry of failures for exception e
FailureEntry(fname, e) ==
    [file_name |-> fname, error |-> e, processing_step |-> e.processing_step,
     details |-> [error_type |-> e.error_type]]

\* the top-level call of slot p returns
Finish(p, acc, result) ==
    /\ i_acc' = [i_acc EXCEPT ![p] = acc]
    /\ i_out' = [i_out EXCEPT ![p] =
                    [status |-> "returned", result |-> result, error |-> NoError]]
    /\ i_pc' = [i_pc EXCEPT ![p] = "returned"]

\* the next iteration of `for fname, markdown in files`, or the return
NextFile(p, acc) ==
    IF acc.done < Len(i_call[p].files)
    THEN /\ i_acc' = [i_acc EXCEPT ![p] =
                [acc EXCEPT !.handed =
                    Append(acc.handed, i_call[p].files[acc.done + 1].fname)]]
         /\ EnterIngestMarkdown(p, i_call[p].files[acc.done + 1].markdown,
                                i_call[p].files[acc.done + 1].fname,
                                i_call[p].library, i_call[p].version)
         /\ UNCHANGED <<i_pc, i_out>>
    ELSE /\ Finish(p, acc, FinalResult(i_call[p], acc))
         /\ m_pc' = [m_pc EXCEPT ![p] = "none"]
         /\ m_loc' = [m_loc EXCEPT ![p] = NoLocals]
         /\ m_log' = [m_log EXCEPT ![p] = NewLog(<<>>)]

\* slot p runs no top-level call
SlotFree(p) == i_pc[p] \in {"idle", "returned", "raised"}

\* a top-level call begins in slot p
BeginCall(p, call) ==
    /\ n_calls < MaxCalls
    /\ n_calls' = n_calls + 1
    /\ i_call' = [i_call EXCEPT ![p] = call]
    /\ IF call.files = <<>>
       THEN /\ Finish(p, NewAcc, FinalResult(call, NewAcc))
            /\ UNCHANGED <<m_pc, m_loc, m_log>>
       ELSE /\ i_acc' = [i_acc EXCEPT ![p] =
                   [NewAcc EXCEPT !.handed = <<call.files[1].fname>>]]
            /\ i_out' = [i_out EXCEPT ![p] = NoOut]
            /\ i_pc' = [i_pc EXCEPT ![p] = "busy"]
            /\ EnterIngestMarkdown(p, call.files[1].markdown, call.files[1].fname,
                                   call.library, call.version)
    /\ UNCHANGED <<store, embedding_mode, notIngest>>

\* lines 221-253 and 370-427: a single markdown file, which
\* process_file_async hands on as it is
CallSingle(p, fn, target, markdown) ==
    /\ SlotFree(p)
    /\ BeginCall(p, [fn |-> fn, file_type |-> "md", filename |-> target.filename,
                     library |-> target.library, version |-> target.version,
                     files |-> <<[fname |-> target.filename, markdown |-> markdown]>>,
                     zip |-> NoZip])

(***************************************************************************)
(* file_processing.py: process_zip_async.                                  *)
(* An archive is [readable, entries]; an entry is [name, markdown, raises]:*)
(* its name, what process_file_async makes of its content, and whether     *)
(* reading or converting it raises.  Names are looked at as characters.    *)
(***************************************************************************)
\* the default of max_entries (file_processing.py:507), which both callers
\* use
MAX_ENTRIES == 2

\* the characters of the entry names of the model
Chars(name) ==
    CASE name = "f1.md"      -> <<"f", "1", ".", "m", "d">>
      [] name = "f2.md"      -> <<"f", "2", ".", "m", "d">>
      [] name = "f3.md"      -> <<"f", "3", ".", "m", "d">>
      [] name = "f4.md"      -> <<"f", "4", ".", "m", "d">>
      [] name = "n.MD"       -> <<"n", ".", "M", "D">>
      [] name = "g.pdf"      -> <<"g", ".", "p", "d", "f">>
      [] name = "docs/"      -> <<"d", "o", "c", "s", "/">>
      [] name = ".env.md"    -> <<".", "e", "n", "v", ".", "m", "d">>
      [] name = "docs/.h.md" -> <<"d", "o", "c", "s", "/", ".", "h", ".", "m", "d">>
      [] name = "img.png"    -> <<"i", "m", "g", ".", "p", "n", "g">>
      [] name = "README"     -> <<"R", "E", "A", "D", "M", "E">>
      [] OTHER               -> <<>>

\* str.lower() on the characters of the model's names
LowerChar(c) ==
    CASE c = "M" -> "m" [] c = "D" -> "d" [] c = "R" -> "r" [] c = "E" -> "e"
      [] c = "A" -> "a" [] OTHER -> c

Lower(cs) == [j \in 1..Len(cs) |-> LowerChar(cs[j])]

\* the last index of character c in cs, 0 when there is none
LastIndexOf(cs, c) ==
    IF \E j \in 1..Len(cs) : cs[j] = c
    THEN CHOOSE j \in 1..Len(cs) :
            cs[j] = c /\ \A k \in (j + 1)..Len(cs) : cs[k] # c
    ELSE 0

\* Path(name).name: what follows the last "/"
FinalComponent(cs) == SubSeq(cs, LastIndexOf(cs, "/") + 1, Len(cs))

\* the suffix of a final component: from its last dot on, unless that dot is
\* its first or its last character
SuffixOf(nm) ==
    IF 1 < LastIndexOf(nm, ".") /\ LastIndexOf(nm, ".") < Len(nm)
    THEN SubSeq(nm, LastIndexOf(nm, "."), Len(nm))
    ELSE <<>>

\* `Path(name).suffix.lower()`
PathSuffixLower(cs) == Lower(SuffixOf(FinalComponent(cs)))

\* file_processing.py:541
ALLOWED_EXTENSIONS ==
    { <<".", "m", "d">>, <<".", "m", "a", "r", "k", "d", "o", "w", "n">>,
      <<".", "h", "t", "m", "l">>, <<".", "h", "t", "m">>, <<".", "t", "x", "t">>,
      <<".", "p", "d", "f">>, <<".", "r", "s", "t">>, <<".", "d", "o", "c", "x">>,
      <<".", "x", "l", "s", "x">>, <<".", "x", "l", "s">> }

\* `sub in name` for a two-character sub
ContainsPair(cs, a, b) == \E j \in 1..(Len(cs) - 1) : cs[j] = a /\ cs[j + 1] = b

\* mutant: only a leading dot of the whole name counts as hidden
SkippedName_RootOnly(cs) ==
    \/ cs # <<>> /\ cs[Len(cs)] = "/"
    \/ cs # <<>> /\ cs[1] = "."

\* line 536: `name.endswith('/') or '/.' in name or name.startswith('.')`
SkippedName(cs) ==
    \/ cs # <<>> /\ cs[Len(cs)] = "/"
    \/ ContainsPair(cs, "/", ".")
    \/ cs # <<>> /\ cs[1] = "."

\* lines 536-551: the entry reaches files.append
EntryKept(entry) ==
    /\ ~SkippedName(Chars(entry.name))
    /\ PathSuffixLower(Chars(entry.name)) \in ALLOWED_EXTENSIONS
    /\ ~entry.raises
    /\ ~IsBlank(entry.markdown)

\* lines 527-532: `entries[:max_entries]`
ConsideredEntries(entries, max_entries) ==
    IF Len(entries) > max_entries THEN SubSeq(entries, 1, max_entries) ELSE entries

FileOfEntry(entry) == [fname |-> entry.name, markdown |-> entry.markdown]

KeptEntries(entries) == SelectSeq(entries, EntryKept)

\* line 546: zf.read(name) looks the name up in the directory of the archive,
\* which keeps the last entry of a name
ReadEntry(zip_entries, name) ==
    zip_entries[MaxOf({j \in 1..Len(zip_entries) : zip_entries[j].name = name})]

\* the entries the loop goes through, each with the content read for its name
EntriesRead(zip_entries, considered) ==
    [j \in 1..Len(considered) |-> ReadEntry(zip_entries, considered[j].name)]

\* lines 523-555: the (filename, markdown) list; an archive that cannot be
\* opened is logged (line 553) and gives the empty list
process_zip_async(zip_content, max_entries) ==
    IF ~zip_content.readable THEN <<>>
    ELSE [j \in 1..Len(KeptEntries(EntriesRead(zip_content.entries,
                        ConsideredEntries(zip_content.entries, max_entries)))) |->
            FileOfEntry(KeptEntries(EntriesRead(zip_content.entries,
                        ConsideredEntries(zip_content.entries, max_entries)))[j])]

\* lines 170-220 and 303-369: an archive, read by process_zip_async
CallArchive(p, fn, library, version, zip_content) ==
    /\ SlotFree(p)
    /\ BeginCall(p, [fn |-> fn, file_type |-> "zip", filename |-> "docs.zip",
                     library |-> library, version |-> version,
                     files |-> process_zip_async(zip_content, MAX_ENTRIES),
                     zip |-> zip_content])

\* a top-level call that ends before _ingest_markdown is entered
EndsEarly(p, call, out) ==
    /\ n_calls < MaxCalls
    /\ n_calls' = n_calls + 1
    /\ i_call' = [i_call EXCEPT ![p] = call]
    /\ i_acc' = [i_acc EXCEPT ![p] = NewAcc]
    /\ i_out' = [i_out EXCEPT ![p] = out]
    /\ i_pc' = [i_pc EXCEPT ![p] = out.status]
    /\ UNCHANGED <<store, embedding_mode, m_pc, m_loc, m_log, notIngest>>

\* lines 160-165 and 293-298: get_qdrant_client or ensure_collection raises
\* (the store cannot be reached); no handler is around them
CollectionSetupFails(p, fn, target) ==
    /\ SlotFree(p)
    /\ EndsEarly(p, [fn |-> fn, file_type |-> "md", filename |-> target.filename,
                     library |-> target.library, version |-> target.version,
                     files |-> <<>>, zip |-> NoZip],
                 [status |-> "raised", result |-> <<>>,
                  error |-> OtherException("Exception")])

\* lines 376-389: the failure entry of a PDFProcessingError, without details
ExtractionFailure(fname) ==
    [file_name |-> fname, error |-> OtherException("PDFProcessingError"),
     processing_step |-> "extraction", details |-> None]

\* lines 223-233 and 372-389: process_file_async raises PDFProcessingError
\* for a PDF; ingest_document raises an IngestionError, the other function
\* returns the failure
ExtractionOutcome(fn, target) ==
    IF fn = "ingest_document"
    THEN [status |-> "raised", result |-> <<>>,
          error |-> IngestionError("extraction", target.filename,
                                   "PDFProcessingError")]
    ELSE [status |-> "returned",
          result |-> PartialResult(
              [library |-> target.library, version |-> target.version],
              FALSE, 0, 0, <<ExtractionFailure(target.filename)>>),
          error |-> NoError]

ExtractionFails(p, fn, target) ==
    /\ SlotFree(p)
    /\ EndsEarly(p, [fn |-> fn, file_type |-> "pdf", filename |-> target.filename,
                     library |-> target.library, version |-> target.version,
                     files |-> <<>>, zip |-> NoZip],
                 ExtractionOutcome(fn, target))

\* lines 198-205 and 338-339: _ingest_markdown returned
AfterFileReturned(p) ==
    /\ i_pc[p] = "busy"
    /\ m_pc[p] = "returned"
    /\ NextFile(p, [i_acc[p] EXCEPT
            !.done = @ + 1,
            !.total_chunks = @ + m_loc[p].ret.chunks_indexed,
            !.successes = @ + 1,
            !.was_duplicate = @ \/ m_loc[p].ret.was_duplicate,
            !.linked_to = IF m_loc[p].ret.was_duplicate
                          THEN m_loc[p].ret.linked_to ELSE @,
            !.truncation_warnings = @ \o m_loc[p].ret.truncation_warnings,
            !.outcomes = Append(@, NoError)])
    /\ UNCHANGED <<store, embedding_mode, n_calls, i_call, notIngest>>

\* mutant: every caller records the failure and goes on
OnFileError_Record(fn, file_type) == "record"

\* mutant: every caller lets the error through
OnFileError_Raise(fn, file_type) == "raise"

\* what the caller of _ingest_markdown does with an IngestionError:
\* lines 206-208 and 235 let it through, lines 340-348 record it and go on,
\* lines 411-427 report the failed call
OnFileError(fn, file_type) ==
    IF fn = "ingest_document" THEN "raise"
    ELSE IF file_type = "zip" THEN "record"
    ELSE "report"

\* _ingest_markdown raised e for the file fname
AfterFileError(p, e, fname, handling) ==
    IF handling = "raise"
    THEN /\ i_acc' = [i_acc EXCEPT ![p].outcomes = Append(@, e)]
         /\ i_out' = [i_out EXCEPT ![p] =
                         [status |-> "raised", result |-> <<>>, error |-> e]]
         /\ i_pc' = [i_pc EXCEPT ![p] = "raised"]
         /\ m_pc' = [m_pc EXCEPT ![p] = "none"]
         /\ m_loc' = [m_loc EXCEPT ![p] = NoLocals]
         /\ m_log' = [m_log EXCEPT ![p] = NewLog(<<>>)]
    ELSE IF handling = "record"
    THEN NextFile(p, [i_acc[p] EXCEPT
                        !.done = @ + 1,
                        !.failures = Append(@, FailureEntry(fname, e)),
                        !.outcomes = Append(@, e)])
    ELSE /\ Finish(p, [i_acc[p] EXCEPT !.outcomes = Append(@, e)],
                   PartialResult(i_call[p], FALSE, 0, 0,
                                 <<FailureEntry(fname, e)>>))
         /\ m_pc' = [m_pc EXCEPT ![p] = "none"]
         /\ m_loc' = [m_loc EXCEPT ![p] = NoLocals]
         /\ m_log' = [m_log EXCEPT ![p] = NewLog(<<>>)]

AfterFileRaised(p) ==
    /\ i_pc[p] = "busy"
    /\ m_pc[p] = "raised"
    /\ AfterFileError(p, m_loc[p].exc, m_loc[p].filename,
                      OnFileError(i_call[p].fn, i_call[p].file_type))
    /\ UNCHANGED <<store, embedding_mode, n_calls, i_call, notIngest>>

\* The inputs.
Word(c) == <<c, c, c, c, c>>
BlankLine == <<"\n", "\n">>

\* three paragraphs (three chunks, two batches), one word, no text at all
DocA == Word("a") \o BlankLine \o Word("b") \o BlankLine \o Word("c")
DocB == Word("d")
DocBlank == <<" ">>
Documents == {DocA, DocB, DocBlank}

Functions == {"ingest_document", "ingest_document_with_partial_failure"}

\* where single files are uploaded to
Targets ==
    { [library |-> "lib1", version |-> "latest", filename |-> "a.md"],
      [library |-> "lib1", version |-> "latest", filename |-> "b.md"],
      [library |-> "lib2", version |-> "v2", filename |-> "a.md"] }

\* where PDF files are uploaded to
PdfTargets ==
    { [library |-> "lib1", version |-> "latest", filename |-> "c.pdf"] }

\* the names of the files of an archive, in order
ArchiveNames == <<"f1.md", "f2.md", "f3.md", "f4.md">>

\* document entries of an archive: each converts to one of the documents docs
DocumentEntries(docs) ==
    { [j \in 1..Len(ds) |->
          [name |-> ArchiveNames[j], markdown |-> ds[j], raises |-> FALSE]] :
        ds \in UNION {[1..n -> docs] : n \in 0..MaxFiles} }

\* entries of other kinds: a directory, hidden files, a picture, a file
\* without extension, an upper-case extension, a PDF whose extraction raises
OtherEntries ==
    { [name |-> n, markdown |-> DocB, raises |-> FALSE] :
        n \in {"docs/", ".env.md", "docs/.h.md", "img.png", "README", "n.MD"} }
    \cup { [name |-> "g.pdf", markdown |-> <<>>, raises |-> TRUE] }

InsertAt(s, k, x) == SubSeq(s, 1, k) \o <<x>> \o SubSeq(s, k + 1, Len(s))

\* bytes that zipfile.ZipFile cannot open
BadZip == [readable |-> FALSE, entries |-> <<>>]

\* an archive with two entries of one name
TwiceNamed ==
    [readable |-> TRUE,
     entries |-> <<[name |-> "f1.md", markdown |-> DocA, raises |-> FALSE],
                   [name |-> "f1.md", markdown |-> DocB, raises |-> FALSE]>>]

\* the archives uploaded: document entries alone, short or blank documents
\* with one entry of another kind among them, an archive with a name twice,
\* and one upload that is no ZIP file
Archives ==
    { [readable |-> TRUE, entries |-> es] : es \in DocumentEntries(Documents) }
    \cup UNION { { [readable |-> TRUE, entries |-> InsertAt(es, k, x)] :
                      k \in 0..Len(es), x \in OtherEntries } :
                    es \in DocumentEntries({DocB, DocBlank}) }
    \cup { TwiceNamed, BadZip }

IngestInit ==
    /\ store = <<>>
    /\ embedding_mode \in {"local", "remote"}
    /\ n_calls = 0
    /\ i_pc = [p \in Procs |-> IF p = 1 THEN "idle" ELSE "off"]
    /\ i_call = [p \in Procs |-> NoCall]
    /\ i_acc = [p \in Procs |-> NewAcc]
    /\ i_out = [p \in Procs |-> NoOut]
    /\ m_pc = [p \in Procs |-> "none"]
    /\ m_loc = [p \in Procs |-> NoLocals]
    /\ m_log = [p \in Procs |-> NewLog(<<>>)]

IngestOff ==
    /\ store = <<>>
    /\ embedding_mode = "local"
    /\ n_calls = 0
    /\ i_pc = [p \in Procs |-> "off"]
    /\ i_call = [p \in Procs |-> NoCall]
    /\ i_acc = [p \in Procs |-> NewAcc]
    /\ i_out = [p \in Procs |-> NoOut]
    /\ m_pc = [p \in Procs |-> "none"]
    /\ m_loc = [p \in Procs |-> NoLocals]
    /\ m_log = [p \in Procs |-> NewLog(<<>>)]

\* single files, one call after the other
IngestNext ==
    \E p \in Procs :
        \/ \E target \in Targets, markdown \in Documents :
              CallSingle(p, "ingest_document", target, markdown)
        \/ \E fn \in Functions, target \in Targets \cup PdfTargets :
              CollectionSetupFails(p, fn, target)
        \/ \E fn \in Functions, target \in PdfTargets : ExtractionFails(p, fn, target)
        \/ IngestMarkdownStep(p)
        \/ AfterFileReturned(p)
        \/ AfterFileRaised(p)

\* the locals of the _ingest_markdown that committed markdown as
\* lib1/latest/a.md
CommittedLocalsOf(markdown) ==
    [NewLocals(markdown, "a.md", "lib1", "latest") EXCEPT
        !.content_hash = compute_content_hash(markdown),
        !.file_path = save_path("a.md", "lib1", "latest"),
        !.chunks = process_markdown_chunks(markdown).chunks]

\* the store after that ingestion: the points of all the chunks of markdown
CommittedStoreOf(markdown) ==
    StoreUpsert(<<>>, BatchPoints(CommittedLocalsOf(markdown),
                                  ChunksData(CommittedLocalsOf(markdown).chunks),
                                  Len(CommittedLocalsOf(markdown).chunks)))

\* DocA committed as lib1/latest/a.md
CommittedLocals == CommittedLocalsOf(DocA)
CommittedStore == CommittedStoreOf(DocA)

\* a store that holds DocA, before any further upload
LinkInit ==
    /\ store = CommittedStore
    /\ embedding_mode \in {"local", "remote"}
    /\ n_calls = 0
    /\ i_pc = [p \in Procs |-> IF p = 1 THEN "idle" ELSE "off"]
    /\ i_call = [p \in Procs |-> NoCall]
    /\ i_acc = [p \in Procs |-> NewAcc]
    /\ i_out = [p \in Procs |-> NoOut]
    /\ m_pc = [p \in Procs |-> "none"]
    /\ m_loc = [p \in Procs |-> NoLocals]
    /\ m_log = [p \in Procs |-> NewLog(<<>>)]

\* further uploads of the content of DocA, one call after the other
LinkNext ==
    \E p \in Procs :
        \/ \E target \in Targets : CallSingle(p, "ingest_document", target, DocA)
        \/ IngestMarkdownStep(p)
        \/ AfterFileReturned(p)
        \/ AfterFileRaised(p)

\* one word that begins as DocB does
DocB2 == <<"d", "d", "d", "e", "e">>
\* DocB with one more character, a space at its end
DocBsp == DocB \o <<" ">>
\* two paragraphs, and the same with another end of the last paragraph:
\* every chunk of the one starts as the chunk of the other does
DocC == Word("a") \o BlankLine \o Word("b")
DocC2 == Word("a") \o BlankLine \o <<"b", "b", "b", "x", "x">>

\* DocA with another end of its last paragraph (three chunks, each starting
\* as the chunk of DocA does), and DocA without its last paragraph
DocA2 ==
    Word("a") \o BlankLine \o Word("b") \o BlankLine \o <<"c", "c", "c", "x", "x">>
Revisions == {DocA2, DocC}

\* a store that holds DocA as lib1/latest/a.md, then uploads of revised
\* versions of it, one call after the other
ReviseNext ==
    \E p \in Procs :
        \/ \E target \in Targets, markdown \in Revisions :
              CallSingle(p, "ingest_document", target, markdown)
        \/ IngestMarkdownStep(p)
        \/ AfterFileReturned(p)
        \/ AfterFileRaised(p)

\* a store that holds DocB as lib1/latest/a.md, and both slots free for one
\* call each
RelinkInit ==
    /\ store = CommittedStoreOf(DocB)
    /\ embedding_mode \in {"local", "remote"}
    /\ n_calls = 0
    /\ i_pc = [p \in Procs |-> "idle"]
    /\ i_call = [p \in Procs |-> NoCall]
    /\ i_acc = [p \in Procs |-> NewAcc]
    /\ i_out = [p \in Procs |-> NoOut]
    /\ m_pc = [p \in Procs |-> "none"]
    /\ m_loc = [p \in Procs |-> NoLocals]
    /\ m_log = [p \in Procs |-> NewLog(<<>>)]

\* the places of the further uploads of DocB
RelinkTargets ==
    Targets \ {[library |-> "lib1", version |-> "latest", filename |-> "a.md"]}

\* slot p begins its upload of DocB
RelinkCall(p, target) ==
    /\ i_pc[p] = "idle"
    /\ BeginCall(p, [fn |-> "ingest_document", file_type |-> "md",
                     filename |-> target.filename, library |-> target.library,
                     version |-> target.version,
                     files |-> <<[fname |-> target.filename, markdown |-> DocB]>>,
                     zip |-> NoZip])

\* two uploads of the content the store holds, made at the same time: their
\* steps interleave at every external call
RelinkNext ==
    \E p \in Procs :
        \/ \E target \in RelinkTargets : RelinkCall(p, target)
        \/ IngestMarkdownStep(p)
        \/ AfterFileReturned(p)
        \/ AfterFileRaised(p)

\* two uploads made at the same time: one content to one place, one content
\* to two places, and different contents to places that differ in library,
\* version and file name
ConcurrentUploads ==
    { <<[library |-> "lib1", version |-> "latest", filename |-> "a.md", markdown |-> DocB],
        [library |-> "lib1", version |-> "latest", filename |-> "a.md", markdown |-> DocB]>>,
      <<[library |-> "lib1", version |-> "latest", filename |-> "a.md", markdown |-> DocB],
        [library |-> "lib2", version |-> "v2", filename |-> "b.md", markdown |-> DocB]>>,
      <<[library |-> "lib1", version |-> "latest", filename |-> "a.md", markdown |-> DocA],
        [library |-> "lib2", version |-> "v2", filename |-> "b.md", markdown |-> DocB]>>,
      <<[library |-> "a", version |-> "b:c", filename |-> "d:e.md", markdown |-> DocB],
        [library |-> "a:b", version |-> "c:d", filename |-> "e.md", markdown |-> DocB2]>>,
      <<[library |-> "lib1", version |-> "latest", filename |-> "a.md", markdown |-> DocC],
        [library |-> "lib1", version |-> "latest", filename |-> "a.md", markdown |-> DocC2]>>,
      <<[library |-> "lib1", version |-> "latest", filename |-> "a.md", markdown |-> DocB],
        [library |-> "lib2", version |-> "v2", filename |-> "b.md", markdown |-> DocBsp]>> }

\* what the call of slot p was given
Uploaded(p) ==
    [library |-> i_call[p].library, version |-> i_call[p].version,
     filename |-> i_call[p].filename, markdown |-> i_call[p].files[1].markdown]

\* both slots are free for one call each
ConcurrentInit ==
    /\ store = <<>>
    /\ embedding_mode \in {"local", "remote"}
    /\ n_calls = 0
    /\ i_pc = [p \in Procs |-> "idle"]
    /\ i_call = [p \in Procs |-> NoCall]
    /\ i_acc = [p \in Procs |-> NewAcc]
    /\ i_out = [p \in Procs |-> NoOut]
    /\ m_pc = [p \in Procs |-> "none"]
    /\ m_loc = [p \in Procs |-> NoLocals]
    /\ m_log = [p \in Procs |-> NewLog(<<>>)]

\* slot p begins its upload of the pair, the one that goes with the upload
\* of the other slot when that has begun
ConcurrentCall(p, pair) ==
    /\ i_pc[p] = "idle"
    /\ \A q \in Procs \ {p} : i_pc[q] # "idle" => Uploaded(q) = pair[q]
    /\ BeginCall(p, [fn |-> "ingest_document", file_type |-> "md",
                     filename |-> pair[p].filename, library |-> pair[p].library,
                     version |-> pair[p].version,
                     files |-> <<[fname |-> pair[p].filename,
                                  markdown |-> pair[p].markdown]>>,
                     zip |-> NoZip])

\* two calls of ingest_document whose steps interleave at every external call
ConcurrentNext ==
    \E p \in Procs :
        \/ \E pair \in ConcurrentUploads : ConcurrentCall(p, pair)
        \/ IngestMarkdownStep(p)
        \/ AfterFileReturned(p)
        \/ AfterFileRaised(p)

\* the one call of an archive run: an archive handed to either function
FirstCallArchive(p, fn, zip_content) ==
    /\ n_calls = 0
    /\ CallArchive(p, fn, "lib1", "latest", zip_content)

\* the one call of an archive run: a single file handed to
\* ingest_document_with_partial_failure
FirstCallSingle(p, target, markdown) ==
    /\ n_calls = 0
    /\ CallSingle(p, "ingest_document_with_partial_failure", target, markdown)

\* one call on an empty store
ArchiveNext ==
    \E p \in Procs :
        \/ \E fn \in Functions, zip_content \in Archives :
              FirstCallArchive(p, fn, zip_content)
        \/ \E target \in Targets, markdown \in Documents :
              FirstCallSingle(p, target, markdown)
        \/ IngestMarkdownStep(p)
        \/ AfterFileReturned(p)
        \/ AfterFileRaised(p)

(***************************************************************************)
(* file_processing.py: extract_pdf_text_async, as process_file_async calls *)
(* it for a single PDF file (ingestion.py:223-233 and 372-389).  Time is  *)
(* counted in ticks.                                                       *)
(***************************************************************************)
PDF_TIMEOUT == 2      \* file_processing.py:30 (default 600 seconds)
KILL_WAIT == 1        \* file_processing.py:231 (timeout=5)

NoPdf ==
    [pc |-> "none", process |-> "none", tmp_path |-> FALSE, workspace |-> FALSE,
     waited |-> 0, timed_out |-> FALSE, markdown |-> <<>>]

PdfOff == pdf = [p \in Procs |-> NoPdf]

PdfOutcomes == {"markdown", "exit_code", "no_output", "timeout"}

\* lines 186-218: the temp file is written, the workspace made and the olmocr
\* subprocess started; the call awaits process.communicate()
PdfBegin(p, fn, target) ==
    /\ SlotFree(p)
    /\ n_calls < MaxCalls
    /\ n_calls' = n_calls + 1
    /\ i_call' = [i_call EXCEPT ![p] =
            [fn |-> fn, file_type |-> "pdf", filename |-> target.filename,
             library |-> target.library, version |-> target.version,
             files |-> <<>>, zip |-> NoZip]]
    /\ i_acc' = [i_acc EXCEPT ![p] = NewAcc]
    /\ i_out' = [i_out EXCEPT ![p] = NoOut]
    /\ i_pc' = [i_pc EXCEPT ![p] = "extract"]
    /\ m_pc' = [m_pc EXCEPT ![p] = "none"]
    /\ m_loc' = [m_loc EXCEPT ![p] = NoLocals]
    /\ m_log' = [m_log EXCEPT ![p] = NewLog(<<>>)]
    /\ pdf' = [pdf EXCEPT ![p] =
            [NoPdf EXCEPT !.pc = "communicate", !.process = "running",
                          !.tmp_path = TRUE, !.workspace = TRUE]]
    /\ UNCHANGED <<store, embedding_mode, notPdf>>

\* lines 220-262: asyncio.wait_for(process.communicate(), PDF_TIMEOUT) ends:
\* the process exited after t ticks (with markdown written, with an exit code
\* other than 0, or without the markdown file), or the timeout fired
PdfCommunicate(p, outcome, t, markdown) ==
    /\ i_pc[p] = "extract"
    /\ pdf[p].pc = "communicate"
    /\ pdf' = [pdf EXCEPT ![p] =
            IF outcome = "timeout"
            THEN [@ EXCEPT !.pc = "kill", !.waited = PDF_TIMEOUT, !.timed_out = TRUE]
            ELSE [@ EXCEPT !.pc = IF outcome = "markdown" THEN "return" ELSE "raise",
                           !.process = "exited",
                           !.waited = t,
                           !.markdown = IF outcome = "markdown" THEN markdown ELSE <<>>]]
    /\ UNCHANGED <<ingestVars, notPdf>>

\* lines 226-239: process.kill(), then process.wait() for at most KILL_WAIT;
\* kill raises when the process is gone already, and nothing is waited for
PdfKill(p, gone, w) ==
    /\ i_pc[p] = "extract"
    /\ pdf[p].pc = "kill"
    /\ pdf' = [pdf EXCEPT ![p] =
            IF gone
            THEN [@ EXCEPT !.pc = "raise", !.process = "exited"]
            ELSE [@ EXCEPT !.pc = "raise", !.process = "killed",
                           !.waited = @ + w]]
    /\ UNCHANGED <<ingestVars, notPdf>>

\* mutant: the files are removed on the returning path only, as in
\* extract_pdf_text (lines 158-159)
Cleanup_ReturnOnly(x, raising) ==
    IF raising THEN x ELSE [x EXCEPT !.tmp_path = FALSE, !.workspace = FALSE]

\* lines 270-282: the finally block
Cleanup(x, raising) == [x EXCEPT !.tmp_path = FALSE, !.workspace = FALSE]

\* lines 236, 245, 259: PDFProcessingError leaves extract_pdf_text_async
\* through the finally block; ingest_document wraps it and
\* ingest_document_with_partial_failure returns the failure
PdfRaise(p) ==
    /\ i_pc[p] = "extract"
    /\ pdf[p].pc = "raise"
    /\ pdf' = [pdf EXCEPT ![p] = [Cleanup(@, TRUE) EXCEPT !.pc = "done"]]
    /\ i_out' = [i_out EXCEPT ![p] = ExtractionOutcome(i_call[p].fn, i_call[p])]
    /\ i_pc' = [i_pc EXCEPT ![p] = ExtractionOutcome(i_call[p].fn, i_call[p]).status]
    /\ UNCHANGED <<store, embedding_mode, n_calls, i_call, i_acc, m_pc, m_loc, m_log,
                   notPdf>>

\* line 256: the markdown is returned through the finally block and handed
\* to _ingest_markdown (ingestion.py:235 and 392)
PdfReturn(p) ==
    /\ i_pc[p] = "extract"
    /\ pdf[p].pc = "return"
    /\ pdf' = [pdf EXCEPT ![p] = [Cleanup(@, FALSE) EXCEPT !.pc = "done"]]
    /\ i_call' = [i_call EXCEPT ![p].files =
            <<[fname |-> i_call[p].filename, markdown |-> pdf[p].markdown]>>]
    /\ i_acc' = [i_acc EXCEPT ![p] =
            [NewAcc EXCEPT !.handed = <<i_call[p].filename>>]]
    /\ i_pc' = [i_pc EXCEPT ![p] = "busy"]
    /\ EnterIngestMarkdown(p, pdf[p].markdown, i_call[p].filename,
                           i_call[p].library, i_call[p].version)
    /\ UNCHANGED <<store, embedding_mode, n_calls, i_out, notPdf>>

\* the steps of one extraction
PdfStep(p) ==
    \/ \E outcome \in PdfOutcomes, t \in 0..PDF_TIMEOUT, markdown \in Documents :
          PdfCommunicate(p, outcome, t, markdown)
    \/ \E gone \in BOOLEAN, w \in 0..KILL_WAIT : PdfKill(p, gone, w)
    \/ PdfRaise(p)
    \/ PdfReturn(p)

\* single PDF files, one call after the other
PdfNext ==
    \E p \in Procs :
        \/ \E fn \in Functions, target \in PdfTargets : PdfBegin(p, fn, target)
        \/ PdfStep(p)
        \/ IngestMarkdownStep(p)
        \/ AfterFileReturned(p)
        \/ AfterFileRaised(p)

(***************************************************************************)
(* Specifications: one per component.                                      *)
(***************************************************************************)
\*SPECS-BEGIN
InitSpecRetry == RetryInit /\ BatchOff /\ ChunkOff /\ IngestOff /\ PdfOff
SpecRetry == InitSpecRetry /\ [][RetryNext]_vars

InitSpecBatch == BatchInit /\ RetryOff /\ ChunkOff /\ IngestOff /\ PdfOff
SpecBatch == InitSpecBatch /\ [][BatchNext]_vars

InitSpecChunk == ChunkInit /\ RetryOff /\ BatchOff /\ IngestOff /\ PdfOff
SpecChunk == InitSpecChunk /\ [][ChunkNext]_vars

InitSpecIngest == IngestInit /\ RetryOff /\ BatchOff /\ ChunkOff /\ PdfOff
SpecIngest == InitSpecIngest /\ [][IngestNext]_vars

InitSpecArchive == IngestInit /\ RetryOff /\ BatchOff /\ ChunkOff /\ PdfOff
SpecArchive == InitSpecArchive /\ [][ArchiveNext]_vars

InitSpecLink == LinkInit /\ RetryOff /\ BatchOff /\ ChunkOff /\ PdfOff
SpecLink == InitSpecLink /\ [][LinkNext]_vars

InitSpecRevise == LinkInit /\ RetryOff /\ BatchOff /\ ChunkOff /\ PdfOff
SpecRevise == InitSpecRevise /\ [][ReviseNext]_vars

InitSpecRelink == RelinkInit /\ RetryOff /\ BatchOff /\ ChunkOff /\ PdfOff
SpecRelink == InitSpecRelink /\ [][RelinkNext]_vars

InitSpecConcurrent == ConcurrentInit /\ RetryOff /\ BatchOff /\ ChunkOff /\ PdfOff
SpecConcurrent == InitSpecConcurrent /\ [][ConcurrentNext]_vars

\* the event loop runs every step of an extraction: each of its awaits ends,
\* by itself or by its timeout
InitSpecPdf == IngestInit /\ RetryOff /\ BatchOff /\ ChunkOff /\ PdfOff
SpecPdf ==
    InitSpecPdf /\ [][PdfNext]_vars /\ \A p \in Procs : WF_vars(PdfStep(p))
\*SPECS-END

(***************************************************************************)
(* Claims about the chunker (checked under SpecChunk).                     *)
(***************************************************************************)
\* C7: every chunk returned by process_markdown_chunks and by
\* split_text_semantic is at most MAX_CHUNK_CHARS characters long, the
\* truncation marker included.
C7_ChunkWithinLimit ==
    c_pc = "done" =>
        \A j \in 1..Len(c_chunks) : Len(c_chunks[j]) <= MAX_CHUNK_CHARS

\* C7 witness: a returned chunk that was cut and carries the marker
C7_Witness ==
    /\ c_pc = "done"
    /\ \E j \in 1..Len(c_chunks) : EndsWith(c_chunks[j], TruncationMarker)
    /\ \E k \in 1..Len(RawChunks(c_text, CHUNK_SIZE, CHUNK_OVERLAP)) :
          Len(RawChunks(c_text, CHUNK_SIZE, CHUNK_OVERLAP)[k]) > MAX_CHUNK_CHARS

(***************************************************************************)
(* Claims about the batch scheduler (checked under SpecBatch).             *)
(***************************************************************************)
\* the estimated cost of a batch: token estimate of each item's text as it
\* stands in the batch, plus the prefix overhead
BatchCost(tokenizer, batch) ==
    SumSeq([j \in 1..Len(batch) |->
              count_tokens(tokenizer, batch[j].text) + PREFIX_TOKENS])

\* C6: every yielded batch has summed estimated cost at most max_tokens, with
\* the tokenizer estimate and with the whitespace fallback estimate; in
\* particular a truncated item fits in a batch by itself.
C6_BatchWithinLimit ==
    \A k \in 1..Len(b_out) : BatchCost(b_tokenizer, b_out[k]) <= b_max

\* the items of chunks_data as they stand after the loop: the same dicts, the
\* text of an oversized one replaced by its truncation (line 98)
ItemsAfter ==
    [j \in 1..Len(b_items) |-> PreparedItem(b_tokenizer, b_items[j], b_max)]

\* adding item j of the batch to the items before it stays within max_tokens
JoinedWithinLimit(batch, j) ==
    BatchCost(b_tokenizer, Prefix(batch, j - 1)) + batch[j].tokens <= b_max

\* C32: the batches yielded by yield_safe_batches, put one after the other,
\* are the input chunks in their order (each chunk in exactly one batch); no
\* yielded batch is empty; and a batch ends before an item exactly when
\* adding that item would push the cost of the non-empty current batch above
\* max_tokens.
C32_BatchesPartitionInput ==
    b_pc = "done" =>
        /\ Flatten(b_out) = ItemsAfter
        /\ [j \in 1..Len(Flatten(b_out)) |-> Flatten(b_out)[j].index]
              = [j \in 1..Len(b_items) |-> b_items[j].index]
        /\ \A k \in 1..Len(b_out) :
              /\ b_out[k] # <<>>
              /\ \A j \in 2..Len(b_out[k]) : JoinedWithinLimit(b_out[k], j)
              /\ k < Len(b_out) =>
                    BatchCost(b_tokenizer, b_out[k]) + b_out[k + 1][1].tokens > b_max

\* C32 witness: the second chunk did not fit with the first one and opened a
\* batch of its own
C32_Witness ==
    /\ b_pc = "done"
    /\ Len(b_out) = 2
    /\ Len(b_out[1]) + Len(b_out[2]) = Len(b_items)
    /\ BatchCost(b_tokenizer, b_out[1]) <= b_max

(***************************************************************************)
(* Claims about the retry loop (checked under SpecRetry).                  *)
(***************************************************************************)
IsFailure(o) == o.type # "ok"
IsTransientFailure(o) == IsFailure(o) /\ is_transient_error(o)
IsPermanentFailure(o) == IsFailure(o) /\ ~is_transient_error(o)
AllTransient(h) == \A j \in 1..Len(h) : IsTransientFailure(h[j])
ExpectedDelays(k) == [j \in 1..k |-> Pow2(j - 1)]

\* C4: when the first k attempts fail transiently (k < max_retries) and
\* attempt k+1 succeeds, the call returns after exactly k+1 attempts and has
\* waited 2^(j-1) seconds after failed attempt j; when all max_retries
\* attempts fail transiently, it raises after exactly max_retries attempts and
\* max_retries-1 waits (no wait after the last failure).
C4_RetryBackoff ==
    /\ (r_hist # <<>> /\ r_hist[Len(r_hist)] = OkResponse) =>
          LET k == Len(r_hist) - 1 IN
          /\ r_pc = "returned"
          /\ k < r_max
          /\ AllTransient(SubSeq(r_hist, 1, k))
          /\ r_calls = k + 1
          /\ r_sleeps = ExpectedDelays(k)
    /\ (r_hist # <<>> /\ AllTransient(r_hist)) =>
          /\ r_pc \in {"raised", "sleep", "post"}
          /\ (r_pc = "raised") <=> (Len(r_hist) = r_max)
          /\ r_pc = "raised" => (r_calls = r_max /\ r_sleeps = ExpectedDelays(r_max - 1))
          /\ r_pc = "post" => r_sleeps = ExpectedDelays(Len(r_hist))

\* C4 witness: two transient failures, then success on the third attempt
C4_Witness ==
    /\ r_pc = "returned"
    /\ r_calls = 3
    /\ r_sleeps = <<1, 2>>
    /\ AllTransient(SubSeq(r_hist, 1, 2))

\* C5 as stated: a call that meets a permanent error has made exactly one
\* attempt and has never waited.
C5_Original ==
    (r_hist # <<>> /\ IsPermanentFailure(r_hist[Len(r_hist)])) =>
        (r_pc = "raised" /\ r_calls = 1 /\ r_sleeps = <<>>)

\* C5 amended: a permanent error on attempt j ends the call at once: it raises
\* with exactly j attempts made and j-1 waits (the waits of the transient
\* failures before it), and no attempt follows it; on the first attempt that
\* is exactly one attempt and zero waits.
C5_PermanentNotRetried ==
    \A j \in 1..Len(r_hist) :
        IsPermanentFailure(r_hist[j]) =>
            /\ j = Len(r_hist)
            /\ r_pc = "raised"
            /\ r_calls = j
            /\ Len(r_sleeps) = j - 1
            /\ (j = 1 => r_sleeps = <<>>)

\* C5 witness: HTTP 503 on the first attempt, HTTP 401 on the second
C5_Witness ==
    /\ r_pc = "raised"
    /\ r_hist = <<HTTPStatusError(503), HTTPStatusError(401)>>
    /\ r_calls = 2
    /\ r_sleeps = <<1>>

(***************************************************************************)
(* Claims about _ingest_markdown (checked under SpecIngest).               *)
(***************************************************************************)
\* _ingest_markdown is over in slot p and its caller has not resumed yet
AtRest(p) == m_pc[p] \in {"returned", "raised"}

\* the ids of the points of all the chunks of the document of slot p
DocumentIds(loc) ==
    PointIds(BatchPoints(loc, ChunksData(process_markdown_chunks(loc.markdown).chunks),
                         Len(process_markdown_chunks(loc.markdown).chunks)))

AllOrNone(ids, s) ==
    \/ ids \cap DOMAIN s = {}
    \/ ids \subseteq DOMAIN s

\* C1: once an ingestion attempt for a document has returned or raised, the
\* store holds all the points of the document's chunks or none of them.
C1_AllOrNothing ==
    \A p \in Procs : AtRest(p) => AllOrNone(DocumentIds(m_loc[p]), store)

\* the points that carried the content hash of slot p's document when its
\* _ingest_markdown began
HitsBefore(p) ==
    PointsWithHash(m_log[p].before, compute_content_hash(m_loc[p].markdown))

\* the result of a duplicate upload: nothing indexed, linked to an existing
\* point's file, as many points with the hash as before
ReportedDuplicate(p) ==
    /\ m_pc[p] = "returned"
    /\ m_loc[p].ret.was_duplicate = TRUE
    /\ m_loc[p].ret.chunks_indexed = 0
    /\ m_loc[p].ret.linked_to \in {m_log[p].before[id].file_path : id \in HitsBefore(p)}
    /\ Cardinality(PointsWithHash(store, compute_content_hash(m_loc[p].markdown)))
         = Cardinality(HitsBefore(p))

C3_RollbackExactIds ==
    \A p \in Procs :
        /\ m_pc[p] = "raised" =>
              IF m_loc[p].point_ids # <<>>
              THEN m_log[p].deletes = <<PointIds(m_loc[p].all_points)>>
              ELSE m_log[p].deletes = <<>>
        /\ m_pc[p] # "raised" => m_log[p].deletes = <<>>

\* C3 witness: the upsert of three points failed and the three were deleted
C3_Witness ==
    \E p \in Procs :
        /\ m_pc[p] = "raised"
        /\ m_loc[p].exc.processing_step = "indexing"
        /\ Len(m_loc[p].point_ids) = 3
        /\ m_log[p].deletes = <<SeqToSet(m_loc[p].point_ids)>>

\* the store differs from before at most in the linked_files of points that
\* were there before
OnlyLinksChanged(before, now) ==
    /\ DOMAIN now = DOMAIN before
    /\ \A id \in DOMAIN before :
          [now[id] EXCEPT !.linked_files = before[id].linked_files] = before[id]

\* C10: on a duplicate hit the ingestion makes no dense and no sparse
\* embedding call, no upsert and no delete; the store changes only through
\* set_payload, in the linked_files of existing points.
C10_DuplicateHitOnlyLinks ==
    \A p \in Procs :
        m_loc[p].existing_doc # None =>
            /\ m_log[p].dense_calls = 0
            /\ m_log[p].sparse_calls = 0
            /\ m_log[p].upserts = <<>>
            /\ m_log[p].deletes = <<>>
            /\ OnlyLinksChanged(m_log[p].before, store)
            /\ \A id \in DOMAIN store :
                  store[id] # m_log[p].before[id]
                      => id \in SeqToSet(m_log[p].set_payloads)

\* C10 witness: a duplicate hit that linked a full page of points
C10_Witness ==
    \E p \in Procs :
        /\ m_pc[p] = "returned"
        /\ m_loc[p].existing_doc # None
        /\ Len(m_log[p].set_payloads) = SCROLL_LIMIT
        /\ store # m_log[p].before

(***************************************************************************)
(* Claims about archives (checked under SpecArchive).                      *)
(***************************************************************************)
IsArchiveCall(p, fn) == i_call[p].fn = fn /\ i_call[p].file_type = "zip"

\* the failures expected for the files and how their pipelines ended
RECURSIVE ExpectedFailures(_, _)
ExpectedFailures(files, outcomes) ==
    IF outcomes = <<>> THEN <<>>
    ELSE IF Head(outcomes) = NoError
         THEN ExpectedFailures(Tail(files), Tail(outcomes))
         ELSE <<FailureEntry(Head(files).fname, Head(outcomes))>>
              \o ExpectedFailures(Tail(files), Tail(outcomes))

FileNames(files) == [j \in 1..Len(files) |-> files[j].fname]

\* C8: in partial-success mode on an archive a file whose pipeline raises is
\* recorded in failures with its name, error and processing step, every
\* later file is still handed to the pipeline, and the call returns
\* success = true with files_processed = files whose pipeline returned,
\* files_failed = length of failures, the two adding up to the files handed
\* to the pipeline.
C8_PartialSuccess ==
    \A p \in Procs :
        IsArchiveCall(p, "ingest_document_with_partial_failure") =>
            /\ i_pc[p] # "raised"
            /\ i_pc[p] = "returned" =>
                  /\ i_acc[p].handed = FileNames(i_call[p].files)
                  /\ Len(i_acc[p].outcomes) = Len(i_call[p].files)
                  /\ i_out[p].result.success = TRUE
                  /\ i_out[p].result.failures =
                        ExpectedFailures(i_call[p].files, i_acc[p].outcomes)
                  /\ i_out[p].result.files_failed = Len(i_out[p].result.failures)
                  /\ i_out[p].result.files_processed =
                        Cardinality({j \in 1..Len(i_acc[p].outcomes) :
                                        i_acc[p].outcomes[j] = NoError})
                  /\ i_out[p].result.files_processed + i_out[p].result.files_failed
                        = Len(i_acc[p].handed)

\* C8 witness: the first file failed at the embedding, the second was ingested
C8_Witness ==
    \E p \in Procs :
        /\ IsArchiveCall(p, "ingest_document_with_partial_failure")
        /\ i_pc[p] = "returned"
        /\ Len(i_acc[p].outcomes) = 2
        /\ i_acc[p].outcomes[1].processing_step = "embedding"
        /\ i_acc[p].outcomes[2] = NoError
        /\ i_out[p].result.files_processed = 1
        /\ i_out[p].result.files_failed = 1
        /\ i_out[p].result.chunks_indexed > 0

\* C9: in fail-fast mode on an archive the first file whose pipeline raises
\* ends the call: that error is raised to the caller and no later file is
\* handed to the pipeline.
C9_FailFast ==
    \A p \in Procs :
        IsArchiveCall(p, "ingest_document") =>
            /\ \A k \in 1..Len(i_acc[p].outcomes) :
                  i_acc[p].outcomes[k] # NoError =>
                      /\ k = Len(i_acc[p].outcomes)
                      /\ i_pc[p] = "raised"
                      /\ i_out[p].error = i_acc[p].outcomes[k]
                      /\ i_out[p].error.type = "IngestionError"
                      /\ i_out[p].error.file_name = i_call[p].files[k].fname
                      /\ i_acc[p].handed = SubSeq(FileNames(i_call[p].files), 1, k)
                      /\ m_pc[p] = "none"
            /\ i_pc[p] = "raised" =>
                  /\ i_acc[p].outcomes # <<>>
                  /\ i_acc[p].outcomes[Len(i_acc[p].outcomes)] # NoError

\* C9 witness: the first of two files failed and the second was never handed on
C9_Witness ==
    \E p \in Procs :
        /\ IsArchiveCall(p, "ingest_document")
        /\ i_pc[p] = "raised"
        /\ Len(i_call[p].files) = 2
        /\ i_acc[p].handed = <<"f1.md">>
        /\ i_out[p].error.processing_step = "indexing"

(***************************************************************************)
(* Claims about linking on a duplicate hit (checked under SpecIngest).     *)
(***************************************************************************)
\* how often the link record of slot p's upload occurs in the linked_files of
\* point id
LinkCount(p, id) ==
    Cardinality({j \in 1..Len(store[id].linked_files) :
                    store[id].linked_files[j] = NewLink(m_loc[p])})

\* slot p's _ingest_markdown returned from the duplicate branch
DuplicateReturned(p) == m_pc[p] = "returned" /\ m_loc[p].existing_doc # None

\* C11: once a duplicate hit has returned, every point of the store that
\* carries the document's content hash has the link record of the new upload
\* in its linked_files.
C11_EveryPointLinked ==
    \A p \in Procs :
        DuplicateReturned(p) =>
            \A id \in PointsWithHash(store, m_loc[p].content_hash) :
                LinkCount(p, id) >= 1

\* the points slot p's duplicate upload wrote to had no link record of it
\* before
NoRepeatedSetPayload(p) ==
    \A j \in 1..Len(m_log[p].set_payloads) :
        NewLink(m_loc[p]) \notin
            SeqToSet(m_log[p].before[m_log[p].set_payloads[j]].linked_files)

\* C12: after duplicate uploads of the same content under the same library,
\* version and filename every point with the content hash has the link
\* record exactly once in its linked_files, and no set_payload went to a
\* point that had the record already.
C12_LinkedExactlyOnce ==
    \A p \in Procs :
        DuplicateReturned(p) =>
            /\ \A id \in PointsWithHash(store, m_loc[p].content_hash) :
                  LinkCount(p, id) = 1
            /\ NoRepeatedSetPayload(p)

(***************************************************************************)
(* Claims about the failures of _ingest_markdown.                          *)
(***************************************************************************)
\* an embedding call of slot p failed: the dense or the sparse embeddings of
\* a batch
EmbeddingFailed(p) == m_log[p].failed \in {"dense", "sparse"}

\* C13: a failing dense or sparse embedding call, remote or local, aborts
\* the document with an IngestionError whose processing_step is "embedding"
\* and whose file_name is the document's; the failing call is the last
\* embedding call made and no upsert is issued
C13_EmbeddingFailureAborts ==
    \A p \in Procs :
        EmbeddingFailed(p) =>
            /\ m_pc[p] \in {"except", "raised"}
            /\ m_loc[p].exc = IngestionError("embedding", m_loc[p].filename, "Exception")
            /\ m_log[p].dense_calls = m_loc[p].batch
            /\ m_log[p].sparse_calls =
                  IF m_log[p].failed = "dense" THEN m_loc[p].batch - 1
                  ELSE m_loc[p].batch
            /\ m_log[p].upserts = <<>>

\* the sparse embeddings of the second batch failed, after the first batch
\* made its points, and the error was raised
C13_Witness ==
    \E p \in Procs :
        /\ m_pc[p] = "raised"
        /\ m_log[p].failed = "sparse"
        /\ m_loc[p].batch = 2
        /\ m_loc[p].point_ids # <<>>
        /\ Len(m_loc[p].chunk_batches) >= 2

\* C14: a call of ingest_document that does not return raises an
\* IngestionError, whichever stage failed
C14_OnlyIngestionErrors ==
    \A p \in Procs :
        (i_call[p].fn = "ingest_document" /\ i_out[p].status = "raised") =>
            i_out[p].error.type = "IngestionError"

\* the processing steps an IngestionError is documented to name (lines 65-74)
ProcessingSteps == {"extraction", "chunking", "embedding", "indexing"}

\* C15: every IngestionError raised by _ingest_markdown or by the call
\* around it names one of the four processing steps
C15_StepOfFour ==
    \A p \in Procs :
        /\ m_loc[p].exc.type = "IngestionError" =>
                m_loc[p].exc.processing_step \in ProcessingSteps
        /\ i_out[p].error.type = "IngestionError" =>
                i_out[p].error.processing_step \in ProcessingSteps

\* the handlers of slot p raise in this step and their rollback delete has
\* failed
RollbackFailedStep(p) ==
    /\ m_pc[p] = "except"
    /\ m_pc'[p] = "raised"
    /\ ~m_log'[p].delete_ok

\* C16: when the rollback delete fails, the handlers still raise, and what
\* they raise is the IngestionError that reached them, unchanged in
\* processing_step, file_name and details
C16_RollbackFailureSwallowed ==
    [][\A p \in Procs :
          RollbackFailedStep(p) =>
              /\ m_loc[p].exc.type = "IngestionError"
              /\ m_loc'[p].exc = m_loc[p].exc]_vars

\* a failed upsert was followed by a failed rollback delete, and the
\* indexing error was raised
C16_Witness ==
    \E p \in Procs :
        /\ m_pc[p] = "raised"
        /\ ~m_log[p].delete_ok
        /\ m_log[p].failed = "upsert"
        /\ m_loc[p].exc = IngestionError("indexing", m_loc[p].filename, "Exception")

(***************************************************************************)
(* Claims about the upsert of a document.                                  *)
(***************************************************************************)
\* the upsert of slot p's document was issued after every batch had its
\* dense and its sparse embeddings, with all the points built
UpsertAfterAllBatches(p) ==
    /\ m_log[p].upserts = <<PointIds(m_loc[p].all_points)>>
    /\ m_log[p].dense_calls = Len(m_loc[p].chunk_batches)
    /\ m_log[p].sparse_calls = Len(m_loc[p].chunk_batches)
    /\ m_log[p].failed \notin {"dense", "sparse"}

\* committed: the one upsert succeeded and nothing was rolled back
Committed(p) ==
    /\ m_pc[p] = "returned"
    /\ Len(m_log[p].upserts) = 1
    /\ m_log[p].failed = ""
    /\ m_log[p].deletes = <<>>

\* failed: an IngestionError was raised and no upsert succeeded
Failed(p) ==
    /\ m_pc[p] = "raised"
    /\ m_loc[p].exc.type = "IngestionError"
    /\ m_log[p].upserts = <<>> \/ m_log[p].failed = "upsert"

\* C17: a document's upsert is issued at most once, with all its points and
\* after the dense and sparse embeddings of every batch; the ingestion of a
\* document that has chunks ends committed (the upsert succeeded) or failed
\* (an IngestionError was raised), and a committed document has no rollback
\* delete
C17_SingleUpsert ==
    \A p \in Procs :
        /\ Len(m_log[p].upserts) <= 1
        /\ m_log[p].upserts # <<>> => UpsertAfterAllBatches(p)
        /\ (AtRest(p) /\ m_loc[p].chunks # <<>>) => (Committed(p) \/ Failed(p))

\* the points are those of n chunks in chunk order, each with total_chunks
\* = n and the content hash
PointsOfChunks(points, n, content_hash) ==
    /\ Len(points) = n
    /\ \A j \in 1..Len(points) :
          /\ points[j].payload.chunk_index = j - 1
          /\ points[j].payload.total_chunks = n
          /\ points[j].payload.content_hash = content_hash

\* C18: when the ingestion of a new document with n chunks returns, n
\* points were upserted, with chunk_index 0..n-1 in order, total_chunks = n
\* and the content hash, and chunks_indexed = n, whatever number of vectors
\* the embedding service answered with
C18_OnePointPerChunk ==
    \A p \in Procs :
        (m_pc[p] = "returned" /\ m_loc[p].existing_doc = None
                              /\ m_loc[p].chunks # <<>>) =>
            /\ PointsOfChunks(m_loc[p].all_points, Len(m_loc[p].chunks),
                              m_loc[p].content_hash)
            /\ m_log[p].upserts = <<PointIds(m_loc[p].all_points)>>
            /\ Cardinality(PointIds(m_loc[p].all_points)) = Len(m_loc[p].chunks)
            /\ m_loc[p].ret.chunks_indexed = Len(m_loc[p].chunks)

(***************************************************************************)
(* Claims about calls that run at the same time.                           *)
(***************************************************************************)
\* no call of slot p's _ingest_markdown has failed
NothingFailed(p) ==
    m_log[p].failed = "" /\ m_log[p].query_ok /\ m_log[p].save_ok

\* slot p's call made no embedding call and reported a duplicate
ReportedWithoutEmbedding(p) ==
    /\ m_log[p].dense_calls = 0
    /\ m_log[p].sparse_calls = 0
    /\ m_loc[p].ret.was_duplicate = TRUE
    /\ m_loc[p].ret.chunks_indexed = 0

\* the files whose points carry the content hash
FilesWithHash(s, content_hash) ==
    {s[id].file_path : id \in PointsWithHash(s, content_hash)}

\* C19: when two calls at the same time ingest the same content and both
\* return, one of them made no embedding call and reported a duplicate with
\* chunks_indexed = 0, and the points of the content hash in the store are
\* those of one document
C19_OneEmbeds ==
    \A p, q \in Procs :
        (/\ p # q
         /\ m_pc[p] = "returned" /\ m_pc[q] = "returned"
         /\ m_loc[p].markdown = m_loc[q].markdown
         /\ NothingFailed(p) /\ NothingFailed(q)) =>
            /\ ReportedWithoutEmbedding(p) \/ ReportedWithoutEmbedding(q)
            /\ Cardinality(FilesWithHash(store, m_loc[p].content_hash)) <= 1

\* the documents of two slots differ in content, library, version and file
\* name
DifferentDocuments(p, q) ==
    /\ m_loc[p].markdown # m_loc[q].markdown
    /\ m_loc[p].library # m_loc[q].library
    /\ m_loc[p].version # m_loc[q].version
    /\ m_loc[p].filename # m_loc[q].filename

\* the points slot p's call wrote and did not delete are in the store, as
\* they were written
OwnPointsIntact(p) ==
    \A id \in m_log[p].stored :
        /\ id \in DOMAIN store
        /\ store[id] = PayloadOf(m_loc[p].all_points, id)

\* C20: of two calls at the same time for different documents, neither is
\* taken for a duplicate, each one's points stay in the store as it wrote
\* them whatever the other does, its rollback included, and when both are
\* over the store holds the points of the two and no other
C20_NoInterference ==
    \A p, q \in Procs :
        (/\ p # q
         /\ m_pc[p] # "none" /\ m_pc[q] # "none"
         /\ DifferentDocuments(p, q)) =>
            /\ m_loc[p].existing_doc = None
            /\ OwnPointsIntact(p)
            /\ (AtRest(p) /\ AtRest(q)) =>
                   DOMAIN store = m_log[p].stored \cup m_log[q].stored

\* the requests to the remote embedding service that are in flight, over all
\* the calls that run
InFlight == Cardinality({p \in Procs : ClientRequests(p) > 0})

\* C21: at any moment the requests in flight to the remote embedding
\* service, over all the ingestions that run, are at most CONCURRENCY_LIMIT
C21_InFlightBounded == InFlight <= CONCURRENCY_LIMIT

(***************************************************************************)
(* Claims about a new attempt after a failure.                             *)
(***************************************************************************)
\* C22: an ingestion of content whose attempt before failed and was rolled
\* back is not taken for a duplicate, and when it returns the points of the
\* content hash in the store are the points of the document's chunks and no
\* other, also when the rollback delete of the failed attempt failed
C22_NoOrphansOnRetry ==
    \A p \in Procs :
        (AtRest(p) /\ m_log[p].after_failed) =>
            /\ m_loc[p].existing_doc = None
            /\ m_pc[p] = "returned" =>
                  PointsWithHash(store, m_loc[p].content_hash) = DocumentIds(m_loc[p])

(***************************************************************************)
(* Claims about what an exhausted retry loop raises (checked under         *)
(* SpecRetry).                                                             *)
(***************************************************************************)
\* embeddings.py:210-212: the bare `raise` re-raises the error of the last
\* client.post
RetryRaises(hist) == hist[Len(hist)]

\* ingestion.py:608-612: the details of the IngestionError that wraps the
\* error e of the retry loop
EmbeddingErrorDetails(e, batch_size) ==
    [error_type |-> e.type, batch_size |-> batch_size,
     suggestion |-> "Check vLLM service status or reduce batch size"]

RetriesExhausted ==
    /\ r_pc = "raised"
    /\ AllTransient(r_hist)

\* C23: when every one of the max_retries attempts failed transiently, the
\* error that reaches the caller of the ingestion is a structured embedding
\* error whose details carry the number of attempts made and the type of the
\* last error.
C23_ExhaustedCarriesAttempts ==
    RetriesExhausted =>
        \A batch_size \in 1..MaxItems :
            LET raised == RetryRaises(r_hist)
                details == EmbeddingErrorDetails(raised, batch_size)
            IN  /\ details.error_type = r_hist[Len(r_hist)].type
                /\ "attempts" \in DOMAIN details
                /\ details.attempts = r_calls

(***************************************************************************)
(* Claims about the classification of errors (checked under SpecRetry).    *)
(***************************************************************************)
ListedTransient(e) ==
    \/ IsRequestError(e)
    \/ e.type = "HTTPStatusError" /\ e.status \in {429, 502, 503, 504}

ListedPermanent(e) ==
    /\ e.type = "HTTPStatusError"
    /\ 400 <= e.status /\ e.status < 500
    /\ e.status # 429

\* C24: every failure a request meets is classified as transient or as
\* permanent: a network or connection error, a request timeout included, and
\* HTTP 429, 502, 503 and 504 are transient; HTTP 400, 401, 403, 404 and
\* every other 4xx status are permanent; and the loop acts on that answer (a
\* permanent failure ends the call at once, a transient one is retried while
\* attempts remain).
C24_Classification ==
    \A j \in 1..Len(r_hist) :
        IsFailure(r_hist[j]) =>
            /\ is_transient_error(r_hist[j]) \in BOOLEAN
            /\ ListedTransient(r_hist[j]) => is_transient_error(r_hist[j])
            /\ ListedPermanent(r_hist[j]) => ~is_transient_error(r_hist[j])
            /\ ListedPermanent(r_hist[j]) => (j = Len(r_hist) /\ r_pc = "raised")
            /\ (ListedTransient(r_hist[j]) /\ j < r_max) =>
                   (j < Len(r_hist) \/ r_pc = "sleep" \/ r_pc = "post")

\* C24 witness: a request timeout was retried, then an unlisted 4xx status
\* (418) ended the call
C24_Witness ==
    /\ r_pc = "raised"
    /\ r_hist = <<ReadTimeout, HTTPStatusError(418)>>
    /\ r_sleeps = <<1>>

(***************************************************************************)
(* Claims about archives as uploaded (checked under SpecArchive).          *)
(***************************************************************************)
UnreadableArchiveCall(p) ==
    /\ i_pc[p] \in {"returned", "raised"}
    /\ i_call[p].file_type = "zip"
    /\ ~i_call[p].zip.readable

\* C25: a call for an archive that cannot be opened as a ZIP file ends in a
\* top-level failure: ingest_document raises, and
\* ingest_document_with_partial_failure returns success = false.
C25_UnreadableArchiveFails ==
    \A p \in Procs :
        UnreadableArchiveCall(p) =>
            IF i_call[p].fn = "ingest_document"
            THEN i_pc[p] = "raised"
            ELSE i_pc[p] = "returned" /\ ~i_out[p].result.success

DirectoryName(cs) == cs # <<>> /\ cs[Len(cs)] = "/"

\* the name or one of its path components starts with a dot
HiddenName(cs) ==
    \E j \in 1..Len(cs) : cs[j] = "." /\ (j = 1 \/ cs[j - 1] = "/")

\* the name ends, whatever the case of its letters, with an extension of the
\* allow-list
ExtensionAllowed(cs) ==
    \E ext \in ALLOWED_EXTENSIONS :
        /\ Len(cs) > Len(ext)
        /\ Lower(SubSeq(cs, Len(cs) - Len(ext) + 1, Len(cs))) = ext

\* C26: of an archive, only the first max_entries entries are considered, and
\* no file handed on to the ingestion of a file is a directory entry, has a
\* name or a path component that starts with a dot, or has an extension
\* outside the allow-list.
C26_EntrySelection ==
    \A p \in Procs :
        i_call[p].file_type = "zip" =>
            /\ Len(i_acc[p].handed) <= MAX_ENTRIES
            /\ \A j \in 1..Len(i_acc[p].handed) :
                  /\ \E k \in 1..Min(MAX_ENTRIES, Len(i_call[p].zip.entries)) :
                        i_call[p].zip.entries[k].name = i_acc[p].handed[j]
                  /\ ~DirectoryName(Chars(i_acc[p].handed[j]))
                  /\ ~HiddenName(Chars(i_acc[p].handed[j]))
                  /\ ExtensionAllowed(Chars(i_acc[p].handed[j]))

\* C26 witness: of the entries docs/.h.md, f1.md, f2.md with max_entries = 2
\* only f1.md was handed on
C26_Witness ==
    \E p \in Procs :
        /\ i_pc[p] = "returned"
        /\ i_call[p].file_type = "zip"
        /\ Len(i_call[p].zip.entries) = 3
        /\ i_call[p].zip.entries[1].name = "docs/.h.md"
        /\ i_call[p].zip.entries[3].name = "f2.md"
        /\ i_acc[p].handed = <<"f1.md">>

(***************************************************************************)
(* Claims about truncation warnings and code blocks (checked under         *)
(* SpecChunk).                                                             *)
(***************************************************************************)
ProcessReturned == c_pc = "done" /\ c_fn = "process_markdown_chunks"

\* the chunks of the input text before the final pass
ChunksBeforeFinalPass == RawChunks(c_text, CHUNK_SIZE, CHUNK_OVERLAP)

WarningsFor(idx) == {k \in 1..Len(c_warnings) : c_warnings[k].chunk_index = idx}

\* C27: process_markdown_chunks returns exactly one character warning for
\* each chunk that is longer than MAX_CHUNK_CHARS before the final pass, with
\* original_size that length and truncated_size at most MAX_CHUNK_CHARS, and
\* none for a chunk of at most MAX_CHUNK_CHARS characters; the call returns
\* its chunks all the same: one for every chunk that is not blank.
C27_OneWarningPerOversized ==
    ProcessReturned =>
        /\ \A j \in 1..Len(ChunksBeforeFinalPass) :
              Cardinality(WarningsFor(j - 1)) =
                  IF Len(ChunksBeforeFinalPass[j]) > MAX_CHUNK_CHARS THEN 1 ELSE 0
        /\ \A k \in 1..Len(c_warnings) :
              /\ c_warnings[k].truncation_type = "character"
              /\ c_warnings[k].chunk_index \in 0..(Len(ChunksBeforeFinalPass) - 1)
              /\ c_warnings[k].original_size =
                     Len(ChunksBeforeFinalPass[c_warnings[k].chunk_index + 1])
              /\ c_warnings[k].truncated_size <= MAX_CHUNK_CHARS
        /\ Len(c_chunks) =
               Cardinality({j \in 1..Len(ChunksBeforeFinalPass) :
                               ~IsBlank(ChunksBeforeFinalPass[j])})

\* C27 witness: a text with a chunk over the limit, warned about, and the
\* chunks returned
C27_Witness ==
    /\ ProcessReturned
    /\ Len(c_warnings) = 1
    /\ c_warnings[1].original_size > MAX_CHUNK_CHARS
    /\ Len(c_chunks) >= 1

\* the input text is one fenced code block, longer than MAX_CHUNK_CHARS
OversizedBlockAlone ==
    /\ Len(c_text) > MAX_CHUNK_CHARS
    /\ SplitCodeBlocks(c_text) = <<<<>>, c_text, <<>>>>

BlockLines == SplitOn(c_text, <<"\n">>)

\* lines a..b of the block, each with its line end
LinesRun(a, b) == Flatten([k \in 1..(b - a + 1) |-> BlockLines[a + k - 1] \o <<"\n">>])

\* the chunk is lines a..b of the block for some a <= b, white space at its
\* two ends apart
WholeLines(chunk) ==
    \E a \in 1..Len(BlockLines) : \E b \in a..Len(BlockLines) :
        chunk = Strip(LinesRun(a, b))

ShortLines == \A k \in 1..Len(BlockLines) : Len(BlockLines[k]) <= MAX_CHUNK_CHARS

ReturnedPosition(idx) ==
    Cardinality({j \in 1..idx : ~IsBlank(ChunksBeforeFinalPass[j])})

WarnedChunk(k) == c_chunks[ReturnedPosition(c_warnings[k].chunk_index) + 1]

\* C33: the truncated_size of every character warning is the length of the
\* chunk it is about as process_markdown_chunks returns it: the size after
\* the cut, the truncation marker included.
C33_TruncatedSizeIsReturnedLength ==
    ProcessReturned =>
        \A k \in 1..Len(c_warnings) :
            c_warnings[k].truncated_size = Len(WarnedChunk(k))

\* C34: the chunk_index of every warning is the zero-based position, in the
\* list process_markdown_chunks returns, of the chunk that was cut (the index
\* _ingest_markdown gives that chunk's point), and no two warnings of one
\* text have the same chunk_index.
C34_IndexIsReturnedPosition ==
    ProcessReturned =>
        /\ \A k \in 1..Len(c_warnings) :
              /\ c_warnings[k].chunk_index < Len(c_chunks)
              /\ c_warnings[k].chunk_index =
                     ReturnedPosition(c_warnings[k].chunk_index)
              /\ EndsWith(c_chunks[c_warnings[k].chunk_index + 1], TruncationMarker)
        /\ \A k \in 1..Len(c_warnings), l \in 1..Len(c_warnings) :
              c_warnings[k].chunk_index = c_warnings[l].chunk_index => k = l

(***************************************************************************)
(* Claims about the extraction of a PDF (checked under SpecPdf).           *)
(***************************************************************************)
TimedOut(p) == i_call[p].file_type = "pdf" /\ pdf[p].timed_out

ExtractionOver(p) == pdf[p].pc = "done"

ExtractionFailureReported(p) ==
    IF i_call[p].fn = "ingest_document"
    THEN /\ i_pc[p] = "raised"
         /\ i_out[p].error.type = "IngestionError"
         /\ i_out[p].error.processing_step = "extraction"
    ELSE /\ i_pc[p] = "returned"
         /\ ~i_out[p].result.success
         /\ Len(i_out[p].result.failures) = 1
         /\ i_out[p].result.failures[1].processing_step = "extraction"
         /\ i_out[p].result.failures[1].file_name = i_call[p].filename

IdInputs(p, j) ==
    <<m_loc[p].library, m_loc[p].version, m_loc[p].filename,
      m_loc[p].all_points[j].payload.chunk_index,
      Prefix(m_loc[p].all_points[j].payload.content, ID_TEXT_CHARS)>>

BuiltIds(p) == [j \in 1..Len(m_loc[p].all_points) |-> m_loc[p].all_points[j].id]

Hashed(p) == m_loc[p].content_hash # None

CommittedBefore(p) ==
    {id \in DOMAIN m_log[p].before \cap DOMAIN CommittedStore :
        m_log[p].before[id] = CommittedStore[id]}

\* C35: the rollback of a failed ingestion deletes no point that an earlier
\* successful ingestion committed, also when the failed call uploaded a
\* revised version to the same library, version and file name whose chunks
\* have the index and the first characters (so the point id) of committed
\* chunks.
C35_RollbackSparesCommitted ==
    \A p \in Procs :
        m_pc[p] = "raised" => CommittedBefore(p) \subseteq DOMAIN store

\* point pl of the store is of the file the call of slot p uploads
OfUploadedFile(pl, p) ==
    /\ pl.library = m_loc[p].library
    /\ pl.version = m_loc[p].version
    /\ pl.file_path = m_loc[p].file_path

\* the call of slot p ingested content (no duplicate hit) for a file of which
\* the store held points of another content
ReplacedContent(p) ==
    /\ m_pc[p] = "returned"
    /\ m_loc[p].existing_doc = None
    /\ \E id \in DOMAIN m_log[p].before :
          /\ OfUploadedFile(m_log[p].before[id], p)
          /\ m_log[p].before[id].content_hash # m_loc[p].content_hash

\* C36: after a successful ingestion of new content for a library, version
\* and file name that were ingested before with other content, every point
\* of the store with that library, version and file_path has the new content
\* hash and a chunk_index below the new total_chunks.
C36_NoPointOfPreviousContent ==
    \A p \in Procs :
        ReplacedContent(p) =>
            \A id \in DOMAIN store :
                OfUploadedFile(store[id], p) =>
                    /\ store[id].content_hash = m_loc[p].content_hash
                    /\ store[id].chunk_index < Len(m_loc[p].chunks)

(***************************************************************************)
(* Claims about duplicate uploads made at the same time (checked under     *)
(* SpecRelink).                                                            *)
(***************************************************************************)
\* slot p's upload returned from the duplicate branch, and the scroll and
\* every set_payload of its linking were answered
Linked(p) == DuplicateReturned(p) /\ m_log[p].link_ok

HasLinkOf(id, p) == NewLink(m_loc[p]) \in SeqToSet(store[id].linked_files)

\* C37: when two duplicate uploads of the same content run at the same time
\* and their scroll and set_payload calls interleave, every point with the
\* content hash ends with the link records of both uploads: the
\* read-modify-write of linked_files loses no link.
C37_NoLinkLost ==
    ((\A p \in Procs : Linked(p))
        /\ m_loc[1].content_hash = m_loc[2].content_hash) =>
            \A id \in PointsWithHash(store, m_loc[1].content_hash) :
                \A p \in Procs : HasLinkOf(id, p)

(***************************************************************************)
(* Claims about a failing duplicate query (checked under SpecLink).        *)
(***************************************************************************)
\* the scroll of slot p's check_duplicate_content raised
QueryFailed(p) == m_pc[p] \notin {"none", "check"} /\ ~m_log[p].query_ok

\* C38: check_duplicate_content never raises: when its query of the store
\* fails it answers not-found, and the ingestion goes on as a miss, also
\* when the store holds points with the hash: the text is chunked, every
\* batch is embedded and the points are upserted; nothing is linked.
C38_QueryFailureIsMiss ==
    \A p \in Procs :
        QueryFailed(p) =>
            /\ m_loc[p].existing_doc = None
            /\ m_pc[p] \notin {"dup_save", "dup_scroll", "dup_link"}
            /\ m_log[p].set_payloads = <<>>
            /\ m_pc[p] \in {"except", "raised"} => m_log[p].failed # ""
            /\ m_pc[p] = "returned" =>
                  /\ ~m_loc[p].ret.was_duplicate
                  /\ m_loc[p].chunks = process_markdown_chunks(m_loc[p].markdown).chunks
                  /\ m_log[p].dense_calls = Len(m_loc[p].chunk_batches)
                  /\ m_log[p].sparse_calls = Len(m_loc[p].chunk_batches)
                  /\ m_loc[p].all_points # <<>> =>
                        m_log[p].upserts = <<PointIds(m_loc[p].all_points)>>
                  /\ m_loc[p].ret.chunks_indexed = Len(m_loc[p].all_points)

\* C38 witness: the store held the points of the content, the query failed,
\* and the upload was chunked, embedded and upserted in full
C38_Witness ==
    \E p \in Procs :
        /\ QueryFailed(p)
        /\ m_pc[p] = "returned"
        /\ PointsWithHash(m_log[p].before, m_loc[p].content_hash) # {}
        /\ m_log[p].upserts = <<DocumentIds(m_loc[p])>>
        /\ m_loc[p].ret.chunks_indexed = Len(m_loc[p].chunks)

(***************************************************************************)
(* Claims about the files of an archive (checked under SpecArchive).       *)
(***************************************************************************)
\* the entries of the archive of slot p that pass the entry selection: among
\* the first max_entries, no directory, no hidden name, an allowed extension
SelectedEntries(p) ==
    SelectSeq(ConsideredEntries(i_call[p].zip.entries, MAX_ENTRIES),
              LAMBDA entry : /\ ~DirectoryName(Chars(entry.name))
                             /\ ~HiddenName(Chars(entry.name))
                             /\ ExtensionAllowed(Chars(entry.name)))

\* ingest_document_with_partial_failure returned for the archive of slot p
PartialArchiveReturned(p) ==
    /\ i_pc[p] = "returned"
    /\ i_call[p].fn = "ingest_document_with_partial_failure"
    /\ i_call[p].file_type = "zip"

\* C39: in partial-success mode, a selected entry of an archive whose text
\* extraction fails is reported in failures with processing_step
\* "extraction" and counted in files_failed, and every selected entry is
\* counted in exactly one of files_processed and files_failed.
C39_ExtractionFailureCounted ==
    \A p \in Procs :
        PartialArchiveReturned(p) =>
            /\ \A j \in 1..Len(SelectedEntries(p)) :
                  SelectedEntries(p)[j].raises =>
                      \E k \in 1..Len(i_out[p].result.failures) :
                          /\ i_out[p].result.failures[k].file_name =
                                 SelectedEntries(p)[j].name
                          /\ i_out[p].result.failures[k].processing_step = "extraction"
            /\ i_out[p].result.files_failed = Len(i_out[p].result.failures)
            /\ i_out[p].result.files_processed + i_out[p].result.files_failed
                  = Len(SelectedEntries(p))

\* ingest_document raised for the archive of slot p: a file of it failed
FailFastArchiveRaised(p) ==
    /\ i_call[p].fn = "ingest_document"
    /\ i_call[p].file_type = "zip"
    /\ m_pc[p] = "raised"

\* C40: in fail-fast mode, when a file of an archive fails, the points of
\* the files of the archive ingested before it stay committed as they were:
\* the rollback deletes only points the failing file tracked.
C40_EarlierFilesStay ==
    \A p \in Procs :
        FailFastArchiveRaised(p) =>
            /\ \A id \in DOMAIN m_log[p].before :
                  id \in DOMAIN store /\ store[id] = m_log[p].before[id]
            /\ \A j \in 1..Len(m_log[p].deletes) :
                  m_log[p].deletes[j] \subseteq SeqToSet(m_loc[p].point_ids)
====
